---- MODULE Spec2Model ----
(***************************************************************************)
(* A model of the search drivers (iterative deepening, aspiration windows, *)
(* multi-PV) and of the lock-less transposition table of the engine.       *)
(*                                                                         *)
(* Every searcher is a record, every method of the SearchExecutor trait an *)
(* operator from the searcher's state (and the state of the searcher it    *)
(* hands the work to) to the new states and the returned report.  The      *)
(* worker thread behind AlphabetaSearcher / SimpleSearcher is a pair of    *)
(* actions that put reports into the report channel.                       *)
(***************************************************************************)
EXTENDS Integers, Sequences, FiniteSets, TLC

VARIABLES
    mode,   \* which searcher the caller drives in this behaviour
    env,    \* the caller: [active, terminated, late, req]
    truth,  \* the positions searched: their game-theoretic values
    out,    \* the last report that try_recv_report of the driven searcher returned
    ex,     \* AlphabetaSearcher / SimpleSearcher: worker thread and channels
    ds,     \* DeepeningSearcher<AlphabetaSearcher>          (deepening.rs)
    asp,    \* AspirationSearcher<AlphabetaSearcher>         (deepening.rs)
    ms,     \* MultipvSearcher<AlphabetaSearcher>            (deepening.rs)
    lg,     \* DeepeningSearcher over AspirationSearcher over MultipvSearcher
            \* over SimpleSearcher                            (search/mod.rs)
    tt,     \* StdHashTable: [generation, table]
    th,     \* the callers of the table, and the history of their calls
    hr,     \* the has_reports flag, its mutex, the report channel and the
            \* two threads using them        (deepening.rs and search/mod.rs)
    se,     \* Search: the nodes of one run              (engine/search.rs)
    mst,    \* MoveStack                                    (chess_move.rs)
    bd,     \* Board: a position and what was computed on it
            \*                                           (position/board.rs)
    cm,     \* Move: the arguments of Move::new and the move (chess_move.rs)
    srv     \* Server: the UCI session                            (uci.rs)

\* The searchers and the table
svars == <<mode, env, truth, out, ex, ds, asp, ms, lg>>
tvars == <<tt, th>>
xvars == <<bd, cm, srv>>
ovars == <<hr, se, mst, xvars>>
vars == <<mode, env, truth, out, ex, ds, asp, ms, lg, tt, th, hr, se, mst,
          bd, cm, srv>>

(***************************************************************************)
(* Bounds of the model.                                                    *)
(***************************************************************************)
MaxDepth == 3       \* the deepest search the caller requests
MaxProgress == 1    \* progress reports the worker sends before the last one
MaxMoves == 2       \* root moves the caller may list in searchmoves
ClusterBits == 0    \* the table has 2^ClusterBits clusters
MaxNewSearch == 1   \* calls of new_search since the table was new or cleared
MaxCalls == 1       \* calls of each of the threads that share the table

(***************************************************************************)
(* Values (basetypes).  Value is i16.                                      *)
(***************************************************************************)
VALUE_MAX == 32767
VALUE_MIN == -VALUE_MAX
VALUE_UNKNOWN == VALUE_MIN - 1

Max(a, b) == IF a >= b THEN a ELSE b
Min(a, b) == IF a <= b THEN a ELSE b

BOUND_NONE == 0
BOUND_LOWER == 1
BOUND_UPPER == 2
BOUND_EXACT == 3

\* Move::invalid()
InvalidMove == 0

(***************************************************************************)
(* Reports.  Err is the Err(TryRecvError) of try_recv_report.              *)
(***************************************************************************)
Report(n, d, v, sm, dn) ==
    [ok |-> TRUE, nodes |-> n, depth |-> d, value |-> v, moves |-> sm, done |-> dn]

Err == [ok |-> FALSE, nodes |-> 0, depth |-> 0, value |-> VALUE_UNKNOWN,
        moves |-> <<>>, done |-> FALSE]

\* SearchParams: pos is the list of moves played from the root position.
\* Only the SearchParams of search/mod.rs have the field `value`.
Params(d, lb, ub, sm, vc, pos) ==
    [depth |-> d, lower_bound |-> lb, upper_bound |-> ub, searchmoves |-> sm,
     variation_count |-> vc, position |-> pos, value |-> VALUE_UNKNOWN]

bogus_params == Params(1, VALUE_MIN, VALUE_MAX, <<InvalidMove>>, 1, <<>>)

(***************************************************************************)
(* AlphabetaSearcher: the commands go to the worker thread, the reports    *)
(* come back through the channel `chan`.  `busy` says that the worker is   *)
(* executing a search, `term` that Command::Terminate reached it.          *)
(* `sent` counts the progress reports of the running search.               *)
(* `nstarts` and `overlap` are history: the number of Command::Start sent  *)
(* since the caller's last start_search, and whether one was sent before   *)
(* the previous search's last report was received.                         *)
(***************************************************************************)
ExInit == [busy |-> FALSE, p |-> bogus_params, term |-> FALSE, sent |-> 0,
           chan |-> <<>>, nstarts |-> 0, overlap |-> FALSE, unsound |-> FALSE]

BaseStart(x, p) ==
    [x EXCEPT !.busy = TRUE, !.p = p, !.term = FALSE, !.sent = 0,
              !.nstarts = @ + 1,
              !.overlap = @ \/ x.busy \/ x.chan # <<>>]

BaseTryRecv(x) ==
    IF x.chan = <<>>
    THEN [x |-> x, r |-> Err]
    ELSE [x |-> [x EXCEPT !.chan = Tail(@)], r |-> Head(x.chan)]

BaseTerminate(x) == [x EXCEPT !.term = x.busy]

(***************************************************************************)
(* The worker thread.  It answers like alpha-beta for the true value V of  *)
(* the searched position: V inside the window, some value <= alpha when    *)
(* V <= alpha, some value >= beta when V >= beta.  `unsound` records that   *)
(* an answer outside the window was not a bound of V (below V on a fail    *)
(* low, above V on a fail high), which a real alpha-beta never returns.    *)
(* The i-th progress report of a search says that i nodes were searched,   *)
(* the last report that MaxProgress + 1 were.                              *)
(***************************************************************************)
TrueValue(pos) == IF pos = <<>> THEN truth.root ELSE -truth.child[pos[1]]

\* position.legal_moves().len() and position.evaluate_final()
LegalMoves(pos) == IF pos = <<>> THEN Len(truth.child) ELSE 0
evaluate_final(pos) == truth.final

Candidates(V, lb, ub) == {VALUE_MIN, lb, V, ub, VALUE_MAX}

\* Any searcher that answers like alpha-beta.
AnyAnswers(V, lb, ub) ==
    IF lb < V /\ V < ub THEN {V}
    ELSE IF V <= lb THEN {v \in Candidates(V, lb, ub) : v <= lb}
    ELSE {v \in Candidates(V, lb, ub) : v >= ub}

\* Search::run keeps its result between alpha and beta at a position that
\* has legal moves.
RunAnswers(V, lb, ub) == {Max(lb, Min(V, ub))}

Answers(V, lb, ub) ==
    IF truth.any THEN AnyAnswers(V, lb, ub) ELSE RunAnswers(V, lb, ub)

IsBoundOf(v, V, lb, ub) ==
    \/ lb < V /\ V < ub /\ v = V
    \/ V <= lb /\ V <= v /\ v <= lb
    \/ V >= ub /\ ub <= v /\ v <= V

WorkerEmit(x, r) == [x EXCEPT !.chan = Append(@, r)]

WorkerProgress ==
    /\ ex.busy
    /\ ex.sent < MaxProgress
    /\ ex' = WorkerEmit([ex EXCEPT !.sent = @ + 1],
                        Report(ex.sent + 1, 0, VALUE_UNKNOWN, <<>>, FALSE))
    /\ UNCHANGED <<mode, env, truth, out, ds, asp, ms, lg, tt, th, ovars>>

WorkerFinish ==
    /\ ex.busy
    /\ LET V == TrueValue(ex.p.position)
           lb == ex.p.lower_bound
           ub == ex.p.upper_bound
       IN \E v \in Answers(V, lb, ub) :
            ex' = WorkerEmit([ex EXCEPT !.busy = FALSE,
                                        !.unsound = @ \/ ~IsBoundOf(v, V, lb, ub)],
                             Report(MaxProgress + 1, ex.p.depth, v, <<>>, TRUE))
    /\ UNCHANGED <<mode, env, truth, out, ds, asp, ms, lg, tt, th, ovars>>

WorkerTerminated ==
    /\ ex.busy
    /\ ex.term
    /\ ex' = WorkerEmit([ex EXCEPT !.busy = FALSE],
                        Report(MaxProgress + 1, 0, VALUE_UNKNOWN, <<>>, TRUE))
    /\ UNCHANGED <<mode, env, truth, out, ds, asp, ms, lg, tt, th, ovars>>

(***************************************************************************)
(* DeepeningSearcher<AlphabetaSearcher> (deepening.rs).  `log` is history:  *)
(* the depths of the searches handed to the inner searcher since the last  *)
(* start_search.                                                           *)
(***************************************************************************)
DeepInit == [params |-> bogus_params, search_is_terminated |-> FALSE,
             previously_searched_nodes |-> 0, depth |-> 0,
             value |-> VALUE_UNKNOWN, log |-> <<>>]

\* Returns [w, x]: the searcher and the inner searcher after the call.
DeepSearchNextDepth(d, x) ==
    [w |-> [d EXCEPT !.log = Append(@, d.depth + 1)],
     x |-> BaseStart(x, [d.params EXCEPT !.depth = d.depth + 1])]

DeepStartSearch(d, x, p) ==
    DeepSearchNextDepth([d EXCEPT !.params = p,
                                  !.search_is_terminated = FALSE,
                                  !.previously_searched_nodes = 0,
                                  !.depth = 0,
                                  !.value = VALUE_UNKNOWN,
                                  !.log = <<>>], x)

\* A seeded fault: try_recv_report without the test of search_is_terminated.
DeepTryRecvReportDeaf(d, x) ==
    LET got == BaseTryRecv(x)
        r == got.r
        nodes == d.previously_searched_nodes + r.nodes
    IN IF ~r.ok THEN [w |-> d, x |-> x, r |-> Err]
       ELSE IF r.done
       THEN LET d2 == [d EXCEPT !.previously_searched_nodes = nodes,
                                !.depth = r.depth,
                                !.value = r.value]
            IN IF r.depth < d.params.depth
               THEN LET nx == DeepSearchNextDepth(d2, got.x)
                    IN [w |-> nx.w, x |-> nx.x,
                        r |-> Report(nodes, r.depth, r.value, r.moves, FALSE)]
               ELSE [w |-> d2, x |-> got.x,
                     r |-> Report(nodes, r.depth, r.value, r.moves, TRUE)]
       ELSE [w |-> d, x |-> got.x,
             r |-> Report(nodes, d.depth, d.value, r.moves, r.done)]

\* A seeded fault: try_recv_report without the test of done, so that a
\* progress report starts the next depth.
DeepTryRecvReportEager(d, x) ==
    LET got == BaseTryRecv(x)
        r == got.r
        nodes == d.previously_searched_nodes + r.nodes
    IN IF ~r.ok THEN [w |-> d, x |-> x, r |-> Err]
       ELSE IF ~d.search_is_terminated /\ d.depth < d.params.depth
       THEN LET nx == DeepSearchNextDepth(
                          [d EXCEPT !.previously_searched_nodes = nodes,
                                    !.depth = d.depth + 1], got.x)
            IN [w |-> nx.w, x |-> nx.x,
                r |-> Report(nodes, r.depth, r.value, r.moves, FALSE)]
       ELSE [w |-> d, x |-> got.x,
             r |-> Report(nodes, d.depth, d.value, r.moves, r.done)]

\* Returns [w, x, r]: r is the returned report, or Err.
DeepTryRecvReport(d, x) ==
    LET got == BaseTryRecv(x)
        r == got.r
        d1 == IF r.moves # <<>> THEN [d EXCEPT !.params.searchmoves = r.moves] ELSE d
        nodes == d.previously_searched_nodes + r.nodes
    IN IF ~r.ok THEN [w |-> d, x |-> x, r |-> Err]
       ELSE IF r.done /\ ~d.search_is_terminated
       THEN LET d2 == [d1 EXCEPT !.previously_searched_nodes = nodes,
                                 !.depth = r.depth,
                                 !.value = r.value]
            IN IF r.depth < d.params.depth
               THEN LET nx == DeepSearchNextDepth(d2, got.x)
                    IN [w |-> nx.w, x |-> nx.x,
                        r |-> Report(nodes, r.depth, r.value, r.moves, FALSE)]
               ELSE [w |-> d2, x |-> got.x,
                     r |-> Report(nodes, r.depth, r.value, r.moves, TRUE)]
       ELSE [w |-> d1, x |-> got.x,
             r |-> Report(nodes, d.depth, d.value, r.moves, r.done)]

DeepTerminateSearch(d, x) ==
    [w |-> [d EXCEPT !.search_is_terminated = TRUE], x |-> BaseTerminate(x)]

(***************************************************************************)
(* AspirationSearcher<AlphabetaSearcher> (deepening.rs).  A transposition  *)
(* table entry for the root, as tt.probe returns it, is [hit, depth,       *)
(* value, bound].  `last` is history: the window and the value of the last *)
(* finished attempt, and whether the search was issued again after it.     *)
(***************************************************************************)
NoEntry == [hit |-> FALSE, depth |-> 0, value |-> 0, bound |-> BOUND_NONE]

Entry(d, v, b) == [hit |-> TRUE, depth |-> d, value |-> v, bound |-> b]

HasLower(b) == b \in {BOUND_LOWER, BOUND_EXACT}
HasUpper(b) == b \in {BOUND_UPPER, BOUND_EXACT}

NoAttempt == [n |-> 0, alpha |-> 0, beta |-> 0, v |-> VALUE_UNKNOWN, again |-> FALSE]

AspNew(lmr) ==
    [params |-> bogus_params, search_is_terminated |-> FALSE,
     previously_searched_nodes |-> 0, lmr_mode |-> lmr,
     alpha |-> VALUE_MIN, beta |-> VALUE_MAX, delta |-> 0,
     expected_to_fail_high |-> FALSE, last |-> NoAttempt]

AspStartDepth(a) ==
    IF a.lmr_mode /\ a.expected_to_fail_high /\ a.params.depth > 0
    THEN a.params.depth - 1
    ELSE a.params.depth

start_aspirated_search(a, x) ==
    [w |-> a,
     x |-> BaseStart(x, [a.params EXCEPT !.depth = AspStartDepth(a),
                                         !.lower_bound = a.alpha,
                                         !.upper_bound = a.beta])]

\* A seeded fault: the window of the entry is not cut to the bounds of the
\* caller.
calc_unbounded_aspiration_window(a, e) ==
    LET use == e.hit /\ e.depth >= 4 /\ e.depth + 2 >= a.params.depth
    IN [a EXCEPT !.delta = 16,
                 !.expected_to_fail_high = FALSE,
                 !.alpha = IF use /\ HasLower(e.bound)
                           THEN Max(e.value - 16, VALUE_MIN) ELSE VALUE_MIN,
                 !.beta = IF use /\ HasUpper(e.bound)
                          THEN Min(e.value + 16, VALUE_MAX) ELSE VALUE_MAX]

calc_initial_aspiration_window(a, e) ==
    LET lower_bound == a.params.lower_bound
        upper_bound == a.params.upper_bound
        use == e.hit /\ e.depth >= 4 /\ e.depth + 2 >= a.params.depth
        v == e.value
        a1 == IF use /\ HasLower(e.bound) THEN Max(v - 16, VALUE_MIN) ELSE VALUE_MIN
        b1 == IF use /\ HasUpper(e.bound) THEN Min(v + 16, VALUE_MAX) ELSE VALUE_MAX
        high == use /\ a1 >= upper_bound
        a2 == IF high THEN upper_bound - 1 ELSE a1
        low == use /\ b1 <= lower_bound
        b2 == IF low THEN lower_bound + 1 ELSE b1
        delta == IF low THEN b2 - v ELSE IF high THEN v - a2 ELSE 16
    IN [a EXCEPT !.delta = delta,
                 !.expected_to_fail_high = high,
                 !.alpha = Max(a2, lower_bound),
                 !.beta = Min(b2, upper_bound)]

\* A seeded fault: delta grows without the cap.
increase_delta_uncapped(delta) == delta + (3 * delta) \div 8

increase_delta(delta) ==
    LET d == delta + (3 * delta) \div 8
    IN IF d > 1500 THEN 1000000 ELSE d

\* A seeded fault: a value equal to alpha is not taken for a fail low.
FailedLowBelowAlpha(a, v) ==
    \/ /\ a.params.lower_bound < a.alpha
       /\ a.params.lower_bound < v
       /\ v < a.alpha
    \/ /\ a.lmr_mode
       /\ a.expected_to_fail_high
       /\ v < a.params.upper_bound

FailedLow(a, v) ==
    \/ /\ a.params.lower_bound < a.alpha
       /\ a.params.lower_bound < v
       /\ v <= a.alpha
    \/ /\ a.lmr_mode
       /\ a.expected_to_fail_high
       /\ v < a.params.upper_bound

\* A seeded fault: a value equal to beta is not taken for a fail high.
FailedHighAboveBeta(a, v) ==
    /\ a.beta < a.params.upper_bound
    /\ a.beta < v
    /\ v < a.params.upper_bound

FailedHigh(a, v) ==
    /\ a.beta < a.params.upper_bound
    /\ a.beta <= v
    /\ v < a.params.upper_bound

\* Returns [w, again]: again is the bool widen_aspiration_window returns.
widen_aspiration_window(a, v) ==
    IF FailedLow(a, v)
    THEN [w |-> [a EXCEPT !.alpha = Max(v - a.delta, a.params.lower_bound),
                          !.expected_to_fail_high = FALSE,
                          !.delta = increase_delta(a.delta)],
          again |-> TRUE]
    ELSE IF FailedHigh(a, v)
    THEN [w |-> [a EXCEPT !.beta = Min(v + a.delta, a.params.upper_bound),
                          !.expected_to_fail_high = FALSE,
                          !.delta = increase_delta(a.delta)],
          again |-> TRUE]
    ELSE [w |-> a, again |-> FALSE]

AspStartSearch(a, x, p, e) ==
    start_aspirated_search(
        calc_initial_aspiration_window(
            [a EXCEPT !.params = p,
                      !.search_is_terminated = FALSE,
                      !.previously_searched_nodes = 0,
                      !.last = NoAttempt], e), x)

AspTryRecvReport(a, x) ==
    LET got == BaseTryRecv(x)
        r == got.r
        a1 == IF r.moves # <<>> THEN [a EXCEPT !.params.searchmoves = r.moves] ELSE a
        nodes == a.previously_searched_nodes + r.nodes
    IN IF ~r.ok THEN [w |-> a, x |-> x, r |-> Err]
       ELSE IF r.done /\ ~a.search_is_terminated
       THEN LET wd == widen_aspiration_window(
                          [a1 EXCEPT !.previously_searched_nodes = nodes], r.value)
                a2 == [wd.w EXCEPT !.last = [n |-> a.last.n + 1, alpha |-> a.alpha,
                                             beta |-> a.beta, v |-> r.value,
                                             again |-> wd.again]]
            IN IF wd.again
               THEN LET nx == start_aspirated_search(a2, got.x)
                    IN [w |-> nx.w, x |-> nx.x,
                        r |-> Report(nodes, 0, VALUE_UNKNOWN, r.moves, FALSE)]
               ELSE [w |-> a2, x |-> got.x,
                     r |-> Report(nodes, r.depth, r.value, r.moves, TRUE)]
       ELSE [w |-> a1, x |-> got.x,
             r |-> Report(nodes, 0, VALUE_UNKNOWN, r.moves, r.done)]

AspTerminateSearch(a, x) ==
    [w |-> [a EXCEPT !.search_is_terminated = TRUE], x |-> BaseTerminate(x)]

(***************************************************************************)
(* MultipvSearcher<AlphabetaSearcher> (deepening.rs).  Its inner searcher  *)
(* is an AspirationSearcher in lmr mode.  current_move_index counts from   *)
(* 0 as in the code, the sequences from 1.  `ttw` is history: the entries  *)
(* written to the transposition table since the last start_search, and     *)
(* `found` the (negated) value the inner searcher returned for each move.  *)
(***************************************************************************)
MpvNew ==
    [params |-> bogus_params, search_is_terminated |-> FALSE,
     previously_searched_nodes |-> 0, searcher |-> AspNew(TRUE),
     current_move_index |-> 0, values |-> <<VALUE_MIN>>,
     ttw |-> <<>>, found |-> <<>>]

Swap(q, i, j) == [q EXCEPT ![i] = q[j], ![j] = q[i]]

\* A seeded fault: the result is written even when searchmoves is empty.
write_reslut_to_tt_always(m) ==
    [m EXCEPT !.ttw = Append(@, [value |-> IF m.values = <<>> THEN VALUE_MIN
                                           ELSE m.values[1],
                                 bound |-> BOUND_EXACT,
                                 depth |-> m.params.depth,
                                 move |-> IF m.params.searchmoves = <<>>
                                          THEN InvalidMove
                                          ELSE m.params.searchmoves[1]])]

write_reslut_to_tt(m) ==
    IF m.params.searchmoves # <<>>
    THEN LET all_moves_were_considered == Len(m.params.searchmoves) =
                                              LegalMoves(m.params.position)
             value == m.values[1]
             bound == IF value <= m.params.lower_bound /\ ~all_moves_were_considered
                      THEN BOUND_NONE
                      ELSE IF value <= m.params.lower_bound THEN BOUND_UPPER
                      ELSE IF value >= m.params.upper_bound \/ ~all_moves_were_considered
                      THEN BOUND_LOWER
                      ELSE BOUND_EXACT
         IN [m EXCEPT !.ttw = Append(@, [value |-> value, bound |-> bound,
                                         depth |-> m.params.depth,
                                         move |-> m.params.searchmoves[1]])]
    ELSE m

\* A seeded fault: alpha is the value of the best move, whatever
\* variation_count is.
search_current_move_best(m, x, e) ==
    LET n == Len(m.params.searchmoves)
        variation_count == Min(1, n)
    IN IF m.current_move_index < n /\ m.values[variation_count] < m.params.upper_bound
       THEN LET alpha == m.values[variation_count]
                mv == m.params.searchmoves[m.current_move_index + 1]
                m1 == [m EXCEPT !.params.position = Append(@, mv),
                                !.previously_searched_nodes = @ + 1]
                nx == AspStartSearch(m1.searcher, x,
                          [m1.params EXCEPT
                              !.depth = m.params.depth - 1,
                              !.lower_bound = -m.params.upper_bound,
                              !.upper_bound = -Max(alpha, m.params.lower_bound),
                              !.searchmoves = <<>>], e)
            IN [w |-> [m1 EXCEPT !.searcher = nx.w], x |-> nx.x, started |-> TRUE]
       ELSE [w |-> write_reslut_to_tt(m), x |-> x, started |-> FALSE]

\* Returns [w, x, started]: started is the bool search_current_move returns.
search_current_move(m, x, e) ==
    LET n == Len(m.params.searchmoves)
        variation_count == Min(m.params.variation_count, n)
    IN IF m.current_move_index < n /\ m.values[variation_count] < m.params.upper_bound
       THEN LET alpha == m.values[variation_count]
                mv == m.params.searchmoves[m.current_move_index + 1]
                m1 == [m EXCEPT !.params.position = Append(@, mv),
                                !.previously_searched_nodes = @ + 1]
                nx == AspStartSearch(m1.searcher, x,
                          [m1.params EXCEPT
                              !.depth = m.params.depth - 1,
                              !.lower_bound = -m.params.upper_bound,
                              !.upper_bound = -Max(alpha, m.params.lower_bound),
                              !.searchmoves = <<>>], e)
            IN [w |-> [m1 EXCEPT !.searcher = nx.w], x |-> nx.x, started |-> TRUE]
       ELSE [w |-> write_reslut_to_tt(m), x |-> x, started |-> FALSE]

RECURSIVE SortIn(_, _, _, _)
SortIn(values, moves, i, v) ==
    IF i > 1 /\ v > values[i - 1]
    THEN SortIn(Swap(values, i, i - 1), Swap(moves, i, i - 1), i - 1, v)
    ELSE [values |-> values, moves |-> moves]

\* A seeded fault: the value is recorded but the lists are not sorted again.
change_current_move_unsorted(m, v) ==
    LET i == m.current_move_index + 1
    IN [m EXCEPT !.values = [@ EXCEPT ![i] = v],
                 !.current_move_index = @ + 1,
                 !.found = Append(@, [move |-> m.params.searchmoves[i], value |-> v])]

\* A seeded fault: the values are sorted again, the moves are left where
\* they were.
change_current_move_values_only(m, v) ==
    LET i == m.current_move_index + 1
        s == SortIn([m.values EXCEPT ![i] = v], m.params.searchmoves, i, v)
    IN [m EXCEPT !.values = s.values,
                 !.current_move_index = @ + 1,
                 !.found = Append(@, [move |-> m.params.searchmoves[i], value |-> v])]

change_current_move(m, v) ==
    LET i == m.current_move_index + 1
        s == SortIn([m.values EXCEPT ![i] = v], m.params.searchmoves, i, v)
    IN [m EXCEPT !.values = s.values,
                 !.params.searchmoves = s.moves,
                 !.current_move_index = @ + 1,
                 !.found = Append(@, [move |-> m.params.searchmoves[i], value |-> v])]

MpvStartSearch(m, x, p, e) ==
    search_current_move(
        [m EXCEPT !.params = p,
                  !.search_is_terminated = FALSE,
                  !.previously_searched_nodes = 0,
                  !.values = [i \in 1..Len(p.searchmoves) |-> VALUE_MIN],
                  !.current_move_index = 0,
                  !.ttw = <<>>,
                  !.found = <<>>], x, e)

\* try_recv_report after search_current_move has returned nx: the report
\* is the last one (done) when no search was started.
MpvReportAfter(nodes, nx) ==
    IF nx.started
    THEN [w |-> nx.w, x |-> nx.x,
          r |-> Report(nodes, 0, VALUE_UNKNOWN, <<>>, FALSE)]
    ELSE [w |-> nx.w, x |-> nx.x,
          r |-> Report(nodes, nx.w.params.depth, nx.w.values[1],
                       nx.w.params.searchmoves, TRUE)]

\* try_recv_report once self.searcher.try_recv_report() has returned got
MpvReceived(m, x, e, got) ==
    LET r == got.r
        m0 == [m EXCEPT !.searcher = got.w]
        nodes == m.previously_searched_nodes + r.nodes
    IN IF ~r.ok THEN [w |-> m, x |-> x, r |-> Err]
       ELSE IF r.done /\ ~m.search_is_terminated
       THEN MpvReportAfter(nodes,
                search_current_move(
                    change_current_move(
                        [m0 EXCEPT !.previously_searched_nodes = nodes,
                                   !.params.position = SubSeq(@, 1, Len(@) - 1)],
                        -r.value),
                    got.x, e))
       ELSE [w |-> m0, x |-> got.x,
             r |-> Report(nodes, 0, VALUE_UNKNOWN, <<>>, r.done)]

MpvTryRecvReport(m, x, e) ==
    IF m.params.searchmoves = <<>>
    THEN [w |-> [m EXCEPT !.params.searchmoves = <<InvalidMove>>], x |-> x,
          r |-> Report(0, m.params.depth, evaluate_final(m.params.position),
                       <<>>, TRUE)]
    ELSE MpvReceived(m, x, e, AspTryRecvReport(m.searcher, x))

MpvTerminateSearch(m, x) ==
    LET t == AspTerminateSearch(m.searcher, x)
    IN [w |-> [m EXCEPT !.search_is_terminated = TRUE, !.searcher = t.w], x |-> t.x]

(***************************************************************************)
(* The searchers of search/mod.rs: DeepeningSearcher hands the work to     *)
(* AspirationSearcher, which hands it to MultipvSearcher, which hands it   *)
(* to SimpleSearcher (the same worker thread and channels as               *)
(* AlphabetaSearcher).  The state is [deep, asp, mpv]; `log` is history    *)
(* as in DeepInit.                                                         *)
(***************************************************************************)
mod_bogus_params == [Params(0, VALUE_MIN, VALUE_MAX, <<>>, 1, <<>>) EXCEPT
                        !.value = VALUE_UNKNOWN]

LegacyInit ==
    [deep |-> [params |-> mod_bogus_params, search_is_terminated |-> FALSE,
               previously_searched_nodes |-> 0, value |-> VALUE_UNKNOWN,
               depth |-> 0, log |-> <<>>],
     asp |-> [params |-> mod_bogus_params, search_is_terminated |-> FALSE,
              previously_searched_nodes |-> 0, value |-> VALUE_UNKNOWN,
              delta |-> 0, alpha |-> VALUE_MIN, beta |-> VALUE_MAX],
     mpv |-> [params |-> mod_bogus_params, search_is_terminated |-> FALSE,
              previously_searched_nodes |-> 0, value |-> VALUE_UNKNOWN]]

\* MultipvSearcher (search/mod.rs)
ModMpvStartSearch(g, x, p) ==
    [w |-> [g EXCEPT !.mpv.params = p,
                     !.mpv.search_is_terminated = FALSE,
                     !.mpv.previously_searched_nodes = 0,
                     !.mpv.value = p.value],
     x |-> BaseStart(x, [p EXCEPT !.searchmoves = <<>>])]

ModMpvTryRecvReport(g, x) ==
    LET got == BaseTryRecv(x) IN [w |-> g, x |-> got.x, r |-> got.r]

ModMpvTerminateSearch(g, x) ==
    [w |-> [g EXCEPT !.mpv.search_is_terminated = TRUE], x |-> BaseTerminate(x)]

\* AspirationSearcher (search/mod.rs)
ModStartAspiratedSearch(g, x) ==
    ModMpvStartSearch(g, x, [g.asp.params EXCEPT !.lower_bound = g.asp.alpha,
                                                 !.upper_bound = g.asp.beta,
                                                 !.value = g.asp.value])

ModWidenAspirationWindow(a) ==
    LET lower_bound == a.params.lower_bound
        upper_bound == a.params.upper_bound
        v == a.value
    IN IF lower_bound < a.alpha /\ lower_bound < v /\ v <= a.alpha
       THEN [w |-> [a EXCEPT !.alpha = Max(v - a.delta, lower_bound),
                             !.delta = increase_delta(a.delta)],
             again |-> TRUE]
       ELSE IF a.beta < upper_bound /\ a.beta <= v /\ v < upper_bound
       THEN [w |-> [a EXCEPT !.beta = Min(v + a.delta, upper_bound),
                             !.delta = increase_delta(a.delta)],
             again |-> TRUE]
       ELSE [w |-> a, again |-> FALSE]

ModAspStartSearch(g, x, p) ==
    LET narrow == ~(p.value = VALUE_UNKNOWN \/ p.value < p.lower_bound
                                           \/ p.value > p.upper_bound)
    IN ModStartAspiratedSearch(
           [g EXCEPT !.asp.params = p,
                     !.asp.search_is_terminated = FALSE,
                     !.asp.previously_searched_nodes = 0,
                     !.asp.value = p.value,
                     !.asp.delta = 17,
                     !.asp.alpha = IF narrow THEN Max(p.value - 17, p.lower_bound)
                                             ELSE p.lower_bound,
                     !.asp.beta = IF narrow THEN Min(p.value + 17, p.upper_bound)
                                            ELSE p.upper_bound], x)

\* try_recv_report once self.searcher.try_recv_report() has returned got
ModAspReceived(g, x, got) ==
    LET r == got.r
        a1 == IF r.value # VALUE_UNKNOWN THEN [g.asp EXCEPT !.value = r.value]
                                         ELSE g.asp
        nodes == g.asp.previously_searched_nodes + r.nodes
    IN IF ~r.ok THEN [w |-> g, x |-> x, r |-> Err]
       ELSE IF r.done /\ ~g.asp.search_is_terminated
       THEN LET wd == ModWidenAspirationWindow(
                          [a1 EXCEPT !.previously_searched_nodes = nodes])
                g2 == [got.w EXCEPT !.asp = wd.w]
            IN IF wd.again
               THEN LET nx == ModStartAspiratedSearch(g2, got.x)
                    IN [w |-> nx.w, x |-> nx.x,
                        r |-> Report(nodes, 0, a1.value, r.moves, FALSE)]
               ELSE [w |-> g2, x |-> got.x,
                     r |-> Report(nodes, r.depth, a1.value, r.moves, TRUE)]
       ELSE [w |-> [got.w EXCEPT !.asp = a1], x |-> got.x,
             r |-> Report(nodes, 0, a1.value, r.moves, r.done)]

ModAspTryRecvReport(g, x) == ModAspReceived(g, x, ModMpvTryRecvReport(g, x))

ModAspTerminateSearch(g, x) ==
    ModMpvTerminateSearch([g EXCEPT !.asp.search_is_terminated = TRUE], x)

\* DeepeningSearcher (search/mod.rs)
start_deeper_search(g, x) ==
    LET depth == g.deep.depth + 1
        value == IF depth < 5 THEN VALUE_UNKNOWN ELSE g.deep.value
    IN ModAspStartSearch([g EXCEPT !.deep.depth = depth,
                                   !.deep.log = Append(@, depth)], x,
                         [g.deep.params EXCEPT !.depth = depth, !.value = value])

ModDeepStartSearch(g, x, p) ==
    start_deeper_search([g EXCEPT !.deep.params = p,
                                  !.deep.search_is_terminated = FALSE,
                                  !.deep.previously_searched_nodes = 0,
                                  !.deep.value = p.value,
                                  !.deep.depth = 0,
                                  !.deep.log = <<>>], x)

\* try_recv_report once self.searcher.try_recv_report() has returned got
ModDeepReceived(g, x, got) ==
    LET r == got.r
        g1 == IF r.value # VALUE_UNKNOWN THEN [got.w EXCEPT !.deep.value = r.value]
                                         ELSE got.w
        nodes == g.deep.previously_searched_nodes + r.nodes
    IN IF ~r.ok THEN [w |-> g, x |-> x, r |-> Err]
       ELSE IF r.done /\ ~g.deep.search_is_terminated
       THEN LET g2 == [g1 EXCEPT !.deep.previously_searched_nodes = nodes]
            IN IF g.deep.depth < g.deep.params.depth
               THEN LET nx == start_deeper_search(g2, got.x)
                    IN [w |-> nx.w, x |-> nx.x,
                        r |-> Report(nodes, r.depth, g1.deep.value, r.moves, FALSE)]
               ELSE [w |-> g2, x |-> got.x,
                     r |-> Report(nodes, r.depth, g1.deep.value, r.moves, TRUE)]
       ELSE [w |-> g1, x |-> got.x,
             r |-> Report(nodes, g.deep.depth - 1, g1.deep.value, r.moves, r.done)]

ModDeepTryRecvReport(g, x) == ModDeepReceived(g, x, ModAspTryRecvReport(g, x))

ModDeepTerminateSearch(g, x) ==
    ModAspTerminateSearch([g EXCEPT !.deep.search_is_terminated = TRUE], x)

(***************************************************************************)
(* StdHashTable (stock/std_hash_table.rs).  A u64 is four words of 16 bits, *)
(* the lowest last.  An entry is [value, gen_bound, depth, move_digest,    *)
(* static_eval], its eight bytes laid out as the Record's documentation    *)
(* says: move_digest, value, static_eval, depth and gen_bound.             *)
(***************************************************************************)
RECURSIVE XorBits(_, _, _)
XorBits(a, b, n) ==
    IF n = 0 \/ (a = 0 /\ b = 0) THEN 0
    ELSE (((a % 2) + (b % 2)) % 2) + 2 * XorBits(a \div 2, b \div 2, n - 1)

\* The XOR of two numbers of 4 bits, tabulated
Xor4 == [a \in 0..15 |-> [b \in 0..15 |-> XorBits(a, b, 4)]]

Xor16(a, b) ==
    IF a = b THEN 0
    ELSE IF a = 0 THEN b
    ELSE IF b = 0 THEN a
    ELSE Xor4[a % 16][b % 16]
         + 16 * Xor4[(a \div 16) % 16][(b \div 16) % 16]
         + 256 * Xor4[(a \div 256) % 16][(b \div 256) % 16]
         + 4096 * Xor4[a \div 4096][b \div 4096]

Xor64(p, q) == <<Xor16(p[1], q[1]), Xor16(p[2], q[2]),
                 Xor16(p[3], q[3]), Xor16(p[4], q[4])>>

Zero64 == <<0, 0, 0, 0>>

\* A key whose upper 48 bits are zero.
Key64(k) == <<0, 0, 0, k>>

\* An i16 as the 16 bits that hold it.
U16(v) == (v + 65536) % 65536

\* MoveDigest::invalid()
MoveDigestInvalid == 0

\* DEPTH_MAX (depth)
DEPTH_MAX == 63

with_static_eval(value, bound, depth, move_digest, static_eval) ==
    [value |-> value, gen_bound |-> bound, depth |-> depth,
     move_digest |-> move_digest, static_eval |-> static_eval]

\* HashTableEntry::new
EntryNew(value, bound, depth, move_digest) ==
    with_static_eval(value, bound, depth, move_digest, VALUE_UNKNOWN)

bound(e) == e.gen_bound % 4

as_u64(e) == <<e.move_digest, U16(e.value), U16(e.static_eval),
               e.depth * 256 + e.gen_bound>>

\* Record::default(): the key and the eight bytes of the data are zero.
DefaultRecord == [key |-> Zero64, data |-> with_static_eval(0, 0, 0, 0, 0)]

generation(record) == record.data.gen_bound - (record.data.gen_bound % 4)

\* A variant of set_generation that leaves the stored key as it was.
set_generation_data_only(record, gen) ==
    [record EXCEPT !.data.gen_bound = gen + bound(record.data)]

set_generation(record, gen) ==
    LET old_data_as_u64 == as_u64(record.data)
        data == [record.data EXCEPT !.gen_bound = gen + bound(record.data)]
    IN [key |-> Xor64(record.key, Xor64(old_data_as_u64, as_u64(data))),
        data |-> data]

RECURSIVE Pow2(_)
Pow2(n) == IF n = 0 THEN 1 ELSE 2 * Pow2(n - 1)

\* StdHashTable::new: the size asked for gives 2^ClusterBits clusters.
cluster_count == Pow2(ClusterBits)

StdHashTableNew ==
    [generation |-> 0,
     table |-> [c \in 1..cluster_count |-> [i \in 1..4 |-> DefaultRecord]]]

\* The index (from 1) of the cluster for a key.
cluster_mut(key) == (key[4] % cluster_count) + 1

\* new_search: N of the code
N == 128

\* self.cluster_count is the length of the table
Staled(t) ==
    LET first == 1..Min(N, Len(t.table))
    IN Cardinality({<<c, i>> \in first \X (1..4) :
                       /\ t.table[c][i].key # Zero64
                       /\ generation(t.table[c][i]) = t.generation})

\* A seeded fault: the generation is advanced once, whatever the records
\* carry.
new_search_once(t) == [t EXCEPT !.generation = (@ + 4) % 256]

RECURSIVE new_search(_)
new_search(t) ==
    LET t1 == [t EXCEPT !.generation = (@ + 4) % 256]
    IN IF Staled(t1) < N THEN t1 ELSE new_search(t1)

\* isize::MAX, as far as the scores need it
isize_MAX == 2147483647

\* A seeded fault: the generation of the record earns nothing.
calc_score_by_depth(t, record) ==
    record.data.depth + (IF bound(record.data) = BOUND_EXACT THEN 1 ELSE 0)

calc_score(t, record) ==
    (IF generation(record) = t.generation THEN DEPTH_MAX + 2 ELSE 0)
        + record.data.depth
        + (IF bound(record.data) = BOUND_EXACT THEN 1 ELSE 0)

\* Whether store takes the slot of this record for the key: it is an empty
\* slot or holds an old record for the same key.
SlotFor(record, key) ==
    record.key = Zero64 \/ Xor64(record.key, as_u64(record.data)) = key

\* The loop of store over the slots i..4 of the cluster: returns
\* [index, found], found saying that the loop ended at `break`.
RECURSIVE ChooseSlot(_, _, _, _, _, _)
ChooseSlot(t, cluster, key, i, replace_index, replace_score) ==
    IF i > 4 THEN [index |-> replace_index, found |-> FALSE]
    ELSE IF SlotFor(cluster[i], key) THEN [index |-> i, found |-> TRUE]
    ELSE LET record_score == calc_score(t, cluster[i])
         IN IF record_score < replace_score
            THEN ChooseSlot(t, cluster, key, i + 1, i, record_score)
            ELSE ChooseSlot(t, cluster, key, i + 1, replace_index, replace_score)

\* A variant of KeepMove that never takes the move of the slot.
KeepMoveNever(data, record) == data

\* store, in the slot it breaks the loop at: "Preserve any existing move."
KeepMove(data, record) ==
    IF data.move_digest = MoveDigestInvalid
    THEN [data EXCEPT !.move_digest = record.data.move_digest]
    ELSE data

\* The record store writes, and the slot it writes it to.
StoreRecord(t, key, data) ==
    LET cluster == t.table[cluster_mut(key)]
        slot == ChooseSlot(t, cluster, key, 1, 1, isize_MAX)
        data1 == [data EXCEPT !.gen_bound = t.generation + bound(data)]
        data2 == IF slot.found THEN KeepMove(data1, cluster[slot.index])
                 ELSE data1
    IN [index |-> slot.index, found |-> slot.found,
        record |-> [key |-> Xor64(key, as_u64(data2)), data |-> data2]]

store(t, key, data) ==
    LET w == StoreRecord(t, key, data)
    IN [t EXCEPT !.table[cluster_mut(key)][w.index] = w.record]

\* The first slot of the cluster, from slot i on, whose record answers to
\* the key; 0 if there is none.
RECURSIVE ProbeSlot(_, _, _)
ProbeSlot(cluster, key, i) ==
    IF i > 4 THEN 0
    ELSE IF Xor64(cluster[i].key, as_u64(cluster[i].data)) = key THEN i
    ELSE ProbeSlot(cluster, key, i + 1)

\* Returns [t, hit, data]: the table after the call, and Some(data) or None.
probe(t, key) ==
    LET c == cluster_mut(key)
        i == ProbeSlot(t.table[c], key, 1)
    IN IF i = 0
       THEN [t |-> t, hit |-> FALSE, data |-> DefaultRecord.data]
       ELSE LET record == set_generation(t.table[c][i], t.generation)
            IN [t |-> [t EXCEPT !.table[c][i] = record],
                hit |-> TRUE, data |-> record.data]

clear(t) == StdHashTableNew

(***************************************************************************)
(* One thread calling the table.  `th` is history: `calls` counts the      *)
(* calls of new_search since the table was new or cleared, `stored` is the *)
(* last store (the key, the entry given, the data written, the move digest *)
(* that was in the slot, whether the slot was empty or of the same key),   *)
(* `last` the last call and whether probe returned Some; `after` says, of  *)
(* a probe, what the call before it was: the construction or clearing of   *)
(* the table ("empty"), or, of a probe for the key of the last store, that *)
(* store ("store"), another probe for that key ("probe") or something else *)
(* ("first"); "other" is a probe for another key.                          *)
(***************************************************************************)
Keys == 0..4

EntryA == with_static_eval(5, BOUND_EXACT, 3, 7, 9)
EntryB == EntryNew(-1, BOUND_LOWER, 1, MoveDigestInvalid)
EntryC == with_static_eval(100, BOUND_UPPER, 2, 11, -3)
EntryD == EntryNew(0, BOUND_NONE, 50, MoveDigestInvalid)

\* The stores the thread may call: <<key, entry>>
Stores == {<<0, EntryA>>, <<1, EntryA>>, <<1, EntryB>>, <<2, EntryC>>,
           <<3, EntryD>>, <<4, EntryB>>}

NoData == DefaultRecord.data

\* The thread stores a key once every smaller key has its record in the
\* table.
Present(t, k) == ProbeSlot(t.table[cluster_mut(Key64(k))], Key64(k), 1) # 0

MayStore(t, k) == \A j \in 0..(k - 1) : Present(t, j)

NoStore == [some |-> FALSE, k |-> 0, e |-> NoData, data |-> NoData,
            old |-> MoveDigestInvalid, found |-> FALSE]

After(op, k) ==
    IF op # "probe" THEN "other"
    ELSE IF th.last.op \in {"new", "clear"} THEN "empty"
    ELSE IF ~th.stored.some \/ th.stored.k # k THEN "other"
    ELSE IF th.last.op = "store" THEN "store"
    ELSE IF th.last.op = "probe" /\ th.last.after \in {"store", "probe", "first"}
    THEN "probe"
    ELSE "first"

Called(op, k, hit) == [op |-> op, after |-> After(op, k), hit |-> hit]

ThInit == [calls |-> 0, stored |-> NoStore,
           last |-> [op |-> "new", after |-> "other", hit |-> FALSE]]

\* A second caller (mode "zero"): one of its keys, 6, has the bits of the
\* data stored for it in generation 4, so that the stored key word, key XOR
\* data, of its record is then zero.
EntryZ == with_static_eval(0, BOUND_UPPER, 0, MoveDigestInvalid, 0)

ZeroStores == {<<6, EntryZ>>, <<2, EntryA>>, <<2, EntryB>>}
ZeroKeys == {2, 6}

StoresIn(m) == IF m = "zero" THEN ZeroStores ELSE Stores
KeysIn(m) == IF m = "zero" THEN ZeroKeys ELSE Keys

TtStore ==
    /\ \E s \in StoresIn(mode) :
         LET key == Key64(s[1])
             w == StoreRecord(tt, key, s[2])
         IN /\ mode = "zero" \/ MayStore(tt, s[1])
            /\ tt' = [tt EXCEPT !.table[cluster_mut(key)][w.index] = w.record]
            /\ th' = [th EXCEPT
                  !.stored = [some |-> TRUE, k |-> s[1], e |-> s[2],
                              data |-> w.record.data,
                              old |-> tt.table[cluster_mut(key)][w.index]
                                         .data.move_digest,
                              found |-> w.found],
                  !.last = Called("store", s[1], FALSE)]
    /\ UNCHANGED <<svars, ovars>>

TtProbe ==
    /\ \E k \in KeysIn(mode) :
         LET r == probe(tt, Key64(k))
         IN /\ tt' = r.t
            /\ th' = [th EXCEPT !.last = Called("probe", k, r.hit)]
    /\ UNCHANGED <<svars, ovars>>

TtNewSearch ==
    /\ th.calls < MaxNewSearch
    /\ tt' = new_search(tt)
    /\ th' = [th EXCEPT !.calls = @ + 1,
                        !.last = Called("new_search", 0, FALSE)]
    /\ UNCHANGED <<svars, ovars>>

TtClear ==
    /\ tt' = clear(tt)
    /\ th' = [calls |-> 0, stored |-> NoStore,
              last |-> Called("clear", 0, FALSE)]
    /\ UNCHANGED <<svars, ovars>>

(***************************************************************************)
(* Tables for new_search (mode "gen").  The sample of new_search is the    *)
(* first N clusters, 4 * N records; a generation is passed over when N of  *)
(* them carry it.  The tables have `full` generations after the current    *)
(* one that fill N records each, block after block of N / 4 clusters,      *)
(* `extra` records of the generation after those, and, beyond the sample,  *)
(* clusters filled with records of that generation as well.  `th` is       *)
(* history: the generation at the start and the calls of new_search.       *)
(***************************************************************************)
MaxGenSearches == 64    \* calls of new_search on one table

\* The record that store writes for the key k in the generation g
GenRecord(g, k) ==
    [key |-> Xor64(Key64(k), as_u64([EntryA EXCEPT !.gen_bound = g + bound(EntryA)])),
     data |-> [EntryA EXCEPT !.gen_bound = g + bound(EntryA)]]

\* The block of N / 4 clusters that the cluster c is in, from 1
GenBlock(c) == (c - 1) \div (N \div 4) + 1

\* The place of the slot i of the cluster c in its block, from 1
GenPlace(c, i) == ((c - 1) % (N \div 4)) * 4 + i

GenSlot(start, full, extra, size, c, i) ==
    IF c > N \/ GenBlock(c) <= full
    THEN GenRecord((start + 4 * Min(GenBlock(c), full + 1)) % 256, (c - 1) + size * i)
    ELSE IF GenBlock(c) = full + 1 /\ GenPlace(c, i) <= extra
    THEN GenRecord((start + 4 * (full + 1)) % 256, (c - 1) + size * i)
    ELSE DefaultRecord

GenTable(start, full, extra, size) ==
    [generation |-> start,
     table |-> [c \in 1..size |->
                   [i \in 1..4 |-> GenSlot(start, full, extra, size, c, i)]]]

GenTables ==
    {GenTable(start, full, extra, size) :
        start \in {0, 248}, full \in 0..4, extra \in {0, N - 1},
        size \in {N, N + 2}}
    \cup {[StdHashTableNew EXCEPT !.generation = start] : start \in {0, 248}}

GenInit(t) == [calls |-> 0, start |-> t.generation]

TtGenNewSearch ==
    /\ mode = "gen"
    /\ th.calls < MaxGenSearches
    /\ tt' = new_search(tt)
    /\ th' = [th EXCEPT !.calls = @ + 1]
    /\ UNCHANGED <<svars, ovars>>

(***************************************************************************)
(* Threads sharing the table (StdHashTable is Sync).  Nothing orders the   *)
(* reads and writes of a record by different threads: each read of a word  *)
(* and each write of a word is a step, and where the code reads through    *)
(* its `&mut Record` a word it has read before, the build may read memory  *)
(* again or use the value it has, so the step takes either.  In this mode  *)
(* `th` is [written, t]: `written` is history, the <<key, data>> of every  *)
(* store call, and t[p] is thread p: where it is in its call (pc), the key *)
(* and slot of the call, the words it has read (rkey, rdata, old), the     *)
(* record store is writing and the words still to write (w, pend), the     *)
(* number of its calls and what its last probe returned (ret).             *)
(***************************************************************************)
Threads == {1, 2}

EntryE == with_static_eval(77, BOUND_EXACT, 5, 13, 21)

\* The table the threads start with: a full cluster, written in an earlier
\* generation.
ParSetup == <<<<2, EntryB>>, <<4, EntryA>>, <<6, EntryC>>, <<8, EntryD>>>>

RECURSIVE StoreAll(_, _, _)
StoreAll(t, stores, n) ==
    IF n = 0 THEN t
    ELSE store(StoreAll(t, stores, n - 1), Key64(stores[n][1]), stores[n][2])

ParTable == new_search(StoreAll(StdHashTableNew, ParSetup, Len(ParSetup)))

ParProbeKeys == {2, 4, 10}
ParStores == {<<10, EntryE>>, <<2, EntryC>>}

NoRet == [returned |-> FALSE, hit |-> FALSE, k |-> 0, data |-> NoData]

ThreadInit ==
    [pc |-> "idle", k |-> 0, i |-> 0, rkey |-> Zero64, rdata |-> NoData,
     old |-> NoData, w |-> DefaultRecord, pend |-> {}, calls |-> 0,
     ret |-> NoRet]

\* The data the stores of the setup wrote
RECURSIVE SetupWritten(_, _)
SetupWritten(t, n) ==
    IF n = 0 THEN {}
    ELSE LET before == StoreAll(t, ParSetup, n - 1)
             key == Key64(ParSetup[n][1])
         IN SetupWritten(t, n - 1)
            \cup {<<ParSetup[n][1], StoreRecord(before, key, ParSetup[n][2]).record.data>>}

ParInit == [written |-> SetupWritten(StdHashTableNew, Len(ParSetup)),
            t |-> [p \in Threads |-> ThreadInit]]

\* The record in memory that thread p is at
Mem(p) == tt.table[cluster_mut(Key64(th.t[p].k))][th.t[p].i]

\* Thread p writes the record r to the slot it is at
MemWrite(p, r) ==
    [tt EXCEPT !.table[cluster_mut(Key64(th.t[p].k))][th.t[p].i] = r]

\* probe(key) is called: the loop begins at the first record of the cluster
ParProbeCall ==
    /\ \E p \in Threads, k \in ParProbeKeys :
         /\ th.t[p].pc = "idle"
         /\ th.t[p].calls < MaxCalls
         /\ th' = [th EXCEPT !.t[p] = [ThreadInit EXCEPT
                      !.pc = "read_key", !.k = k, !.i = 1,
                      !.calls = th.t[p].calls + 1]]
    /\ UNCHANGED <<tt, svars, ovars>>

\* record.key ^ record.data.as_u64() == key: the key word is read
ParProbeReadKey ==
    /\ \E p \in Threads :
         /\ th.t[p].pc = "read_key"
         /\ th' = [th EXCEPT !.t[p].rkey = Mem(p).key, !.t[p].pc = "read_data"]
    /\ UNCHANGED <<tt, svars, ovars>>

\* ... the data word is read and the test is made: on a mismatch the loop
\* goes to the next record, or probe returns None after the last one
ParProbeReadData ==
    /\ \E p \in Threads :
         LET me == th.t[p]
             data == Mem(p).data
         IN /\ me.pc = "read_data"
            /\ th' = [th EXCEPT !.t[p] =
                  IF Xor64(me.rkey, as_u64(data)) = Key64(me.k)
                  THEN [me EXCEPT !.rdata = data, !.pc = "set_generation"]
                  ELSE IF me.i < 4
                  THEN [me EXCEPT !.i = @ + 1, !.pc = "read_key"]
                  ELSE [me EXCEPT !.pc = "idle",
                                  !.ret = [NoRet EXCEPT !.returned = TRUE, !.k = me.k]]]
    /\ UNCHANGED <<tt, svars, ovars>>

\* set_generation: old_data_as_u64 is taken, and the byte gen_bound is
\* written
ParSetGenerationData ==
    /\ \E p \in Threads :
         LET me == th.t[p]
         IN /\ me.pc = "set_generation"
            /\ \E old \in {me.rdata, Mem(p).data} :
                 LET gen_bound == tt.generation + bound(old)
                 IN /\ tt' = MemWrite(p, [Mem(p) EXCEPT !.data.gen_bound = gen_bound])
                    /\ th' = [th EXCEPT !.t[p].old = old,
                                        !.t[p].rdata = [old EXCEPT !.gen_bound = gen_bound],
                                        !.t[p].pc = "set_key"]
    /\ UNCHANGED <<svars, ovars>>

\* set_generation: self.key ^= old_data_as_u64 ^ self.data.as_u64()
ParSetGenerationKey ==
    /\ \E p \in Threads :
         LET me == th.t[p]
         IN /\ me.pc = "set_key"
            /\ \E data \in {me.rdata, Mem(p).data}, key \in {me.rkey, Mem(p).key} :
                 tt' = MemWrite(p, [Mem(p) EXCEPT !.key =
                           Xor64(key, Xor64(as_u64(me.old), as_u64(data)))])
            /\ th' = [th EXCEPT !.t[p].pc = "return"]
    /\ UNCHANGED <<svars, ovars>>

\* return Some(record.data)
ParProbeReturn ==
    /\ \E p \in Threads :
         LET me == th.t[p]
         IN /\ me.pc = "return"
            /\ \E data \in {me.rdata, Mem(p).data} :
                 th' = [th EXCEPT !.t[p].pc = "idle",
                                  !.t[p].ret = [returned |-> TRUE, hit |-> TRUE,
                                                k |-> me.k, data |-> data]]
    /\ UNCHANGED <<tt, svars, ovars>>

\* store(key, data) is called: the generation is set, the slot is chosen and
\* the record to write is made
ParStoreCall ==
    /\ \E p \in Threads, s \in ParStores :
         LET w == StoreRecord(tt, Key64(s[1]), s[2])
         IN /\ th.t[p].pc = "idle"
            /\ th.t[p].calls < MaxCalls
            /\ th' = [th EXCEPT
                  !.written = @ \cup {<<s[1], w.record.data>>},
                  !.t[p] = [ThreadInit EXCEPT
                      !.pc = "write", !.k = s[1], !.i = w.index, !.w = w.record,
                      !.pend = {"key", "data"},
                      !.calls = th.t[p].calls + 1]]
    /\ UNCHANGED <<tt, svars, ovars>>

\* cluster[replace_index] = Record { .. }: the key word is written
ParStoreWriteKey ==
    /\ \E p \in Threads :
         LET me == th.t[p]
         IN /\ me.pc = "write" /\ "key" \in me.pend
            /\ tt' = MemWrite(p, [Mem(p) EXCEPT !.key = me.w.key])
            /\ th' = [th EXCEPT !.t[p].pend = @ \ {"key"},
                                !.t[p].pc = IF me.pend = {"key"} THEN "idle" ELSE "write"]
    /\ UNCHANGED <<svars, ovars>>

\* ... the data word is written
ParStoreWriteData ==
    /\ \E p \in Threads :
         LET me == th.t[p]
         IN /\ me.pc = "write" /\ "data" \in me.pend
            /\ tt' = MemWrite(p, [Mem(p) EXCEPT !.data = me.w.data])
            /\ th' = [th EXCEPT !.t[p].pend = @ \ {"data"},
                                !.t[p].pc = IF me.pend = {"data"} THEN "idle" ELSE "write"]
    /\ UNCHANGED <<svars, ovars>>

(***************************************************************************)
(* The caller.  It starts a search only when the previous one is done,     *)
(* polls try_recv_report at any time, and may call terminate_search once   *)
(* while a search is running.  `late` is history: a report was returned    *)
(* after the report with done = true and before the next start_search.     *)
(***************************************************************************)
Moves == 1..MaxMoves

Windows == {<<VALUE_MIN, VALUE_MAX>>, <<-100, 100>>}
RootValues == {VALUE_MIN, -3000, -100, -20, 0, 100, 3000, VALUE_MAX}
MoveValues == {-200, 40, 300}
FinalValues == {-20000}
DeepValues == {-20, 3000}
TtSeeds == {NoEntry, Entry(3, 0, BOUND_EXACT), Entry(4, 0, BOUND_EXACT),
            Entry(4, 500, BOUND_LOWER), Entry(4, -500, BOUND_UPPER)}
MpvSeeds == {NoEntry, Entry(4, 0, BOUND_LOWER)}
AspDepths == {1, MaxDepth + 4}

MpvDepths == {2}
MpvVariations == {1, 2}

\* The root position has the value `root` and the legal moves 1..Len(child),
\* move i being worth child[i] to the side to move; the final position (mate
\* or stalemate, no legal moves) is written <<InvalidMove>>.
FinalPosition == <<InvalidMove>>

EnvInit == [active |-> FALSE, terminated |-> FALSE, late |-> FALSE,
            req |-> bogus_params]

CanStart == ~env.active

Started(p) == [env EXCEPT !.active = TRUE, !.terminated = FALSE,
                          !.late = FALSE, !.req = p]

\* The history of the worker starts afresh with every search of the caller.
Fresh(x) == [x EXCEPT !.nstarts = 0, !.unsound = FALSE]

Received(r) == [env EXCEPT !.active = @ /\ ~(r.ok /\ r.done),
                           !.late = @ \/ (r.ok /\ ~env.active)]

\* The caller has polled: s is what try_recv_report returned, [w, x, r].
Polled(s) ==
    /\ ex' = s.x
    /\ out' = (IF s.r.ok THEN s.r ELSE out)
    /\ env' = Received(s.r)

DeepPolled(s) == ds' = s.w /\ Polled(s)
AspPolled(s) == asp' = s.w /\ Polled(s)
MpvPolled(s) == ms' = s.w /\ Polled(s)
ModDeepPolled(s) == lg' = s.w /\ Polled(s)

DeepStart ==
    /\ mode = "deep"
    /\ CanStart
    /\ \E requested \in 1..MaxDepth, w \in Windows :
         LET p == Params(requested, w[1], w[2], <<>>, 1, <<>>)
             s == DeepStartSearch(ds, Fresh(ex), p)
         IN /\ ds' = s.w
            /\ ex' = s.x
            /\ env' = Started(p)
    /\ out' = Err
    /\ UNCHANGED <<mode, truth, asp, ms, lg, tt, th, ovars>>

DeepRecv ==
    /\ mode = "deep"
    /\ DeepPolled(DeepTryRecvReport(ds, ex))
    /\ UNCHANGED <<mode, truth, asp, ms, lg, tt, th, ovars>>

DeepTerminate ==
    /\ mode = "deep"
    /\ env.active
    /\ ~env.terminated
    /\ LET s == DeepTerminateSearch(ds, ex)
       IN ds' = s.w /\ ex' = s.x
    /\ env' = [env EXCEPT !.terminated = TRUE]
    /\ UNCHANGED <<mode, truth, out, asp, ms, lg, tt, th, ovars>>

AspStart ==
    /\ mode = "asp"
    /\ CanStart
    /\ \E d \in AspDepths, w \in Windows, e \in TtSeeds :
         LET p == Params(d, w[1], w[2], <<>>, 1, <<>>)
             s == AspStartSearch(asp, Fresh(ex), p, e)
         IN /\ asp' = s.w
            /\ ex' = s.x
            /\ env' = Started(p)
    /\ out' = Err
    /\ UNCHANGED <<mode, truth, ds, ms, lg, tt, th, ovars>>

AspRecv ==
    /\ mode = "asp"
    /\ AspPolled(AspTryRecvReport(asp, ex))
    /\ UNCHANGED <<mode, truth, ds, ms, lg, tt, th, ovars>>

AspTerminate ==
    /\ mode = "asp"
    /\ env.active
    /\ ~env.terminated
    /\ LET s == AspTerminateSearch(asp, ex)
       IN asp' = s.w /\ ex' = s.x
    /\ env' = [env EXCEPT !.terminated = TRUE]
    /\ UNCHANGED <<mode, truth, out, ds, ms, lg, tt, th, ovars>>

MpvStart ==
    /\ mode = "mpv"
    /\ CanStart
    /\ \E n \in 0..MaxMoves, k \in MpvVariations, d \in MpvDepths,
          w \in Windows, e \in MpvSeeds :
         LET p == Params(d, w[1], w[2], [i \in 1..n |-> i], k,
                         IF n = 0 THEN FinalPosition ELSE <<>>)
             s == MpvStartSearch(ms, Fresh(ex), p, e)
         IN /\ n = 0 => e = NoEntry /\ k = 1 /\ w[1] = VALUE_MIN
            /\ ms' = s.w
            /\ ex' = s.x
            /\ env' = Started(p)
    /\ out' = Err
    /\ UNCHANGED <<mode, truth, ds, asp, lg, tt, th, ovars>>

MpvRecv ==
    /\ mode = "mpv"
    /\ \E e \in (IF ex.chan # <<>> /\ Head(ex.chan).done THEN MpvSeeds ELSE {NoEntry}) :
         MpvPolled(MpvTryRecvReport(ms, ex, e))
    /\ UNCHANGED <<mode, truth, ds, asp, lg, tt, th, ovars>>

ModDeepStart ==
    /\ mode = "mod"
    /\ CanStart
    /\ \E requested \in 0..MaxDepth, w \in Windows :
         LET p == Params(requested, w[1], w[2], <<>>, 1, <<>>)
             s == ModDeepStartSearch(lg, Fresh(ex), p)
         IN /\ lg' = s.w
            /\ ex' = s.x
            /\ env' = Started(p)
    /\ out' = Err
    /\ UNCHANGED <<mode, truth, ds, asp, ms, tt, th, ovars>>

ModDeepRecv ==
    /\ mode = "mod"
    /\ ModDeepPolled(ModDeepTryRecvReport(lg, ex))
    /\ UNCHANGED <<mode, truth, ds, asp, ms, tt, th, ovars>>

ModDeepTerminate ==
    /\ mode = "mod"
    /\ env.active
    /\ ~env.terminated
    /\ LET s == ModDeepTerminateSearch(lg, ex)
       IN lg' = s.w /\ ex' = s.x
    /\ env' = [env EXCEPT !.terminated = TRUE]
    /\ UNCHANGED <<mode, truth, out, ds, asp, ms, tt, th, ovars>>

MpvTerminate ==
    /\ mode = "mpv"
    /\ env.active
    /\ ~env.terminated
    /\ LET s == MpvTerminateSearch(ms, ex)
       IN ms' = s.w /\ ex' = s.x
    /\ env' = [env EXCEPT !.terminated = TRUE]
    /\ UNCHANGED <<mode, truth, out, ds, asp, lg, tt, th, ovars>>

(***************************************************************************)
(* The has_reports flag of AlphabetaSearcher and of SimpleSearcher: a      *)
(* Mutex<bool> with a Condvar, shared by the caller's thread and the       *)
(* worker thread, next to the report channel.  Each acquisition of the     *)
(* mutex, each channel operation and each wait is a step.                  *)
(***************************************************************************)
MaxReports == 2     \* reports the worker sends

\* has_reports_condition and thread_reports after new(), and the two
\* threads: `w` is the worker's position, `c` the caller's; `result` is what
\* thread_reports.try_recv() gave the caller, `locked` whether the caller
\* held the mutex at that call.  `waited` and `lost` are history: whether the
\* last wait_report blocked; it blocked although a report was in the channel and
\* the worker had announced it.  `cleared` says what the last
\* `*has_reports = false` followed.
HrInit ==
    [thread_reports |-> 0, has_reports |-> FALSE, mutex |-> "free",
     sent |-> 0, w |-> "idle", c |-> "idle",
     result |-> "none", locked |-> FALSE,
     waited |-> "never", lost |-> FALSE, notified |-> FALSE,
     cleared |-> "never"]

\* A report is in the channel and the worker is not announcing one
Announced(h) == h.thread_reports > 0 /\ h.w = "idle"

\* The worker: reports_tx.send(report), ...
HrSend ==
    /\ hr.w = "idle"
    /\ hr.sent < MaxReports
    /\ hr' = [hr EXCEPT !.thread_reports = @ + 1, !.sent = @ + 1, !.w = "sent"]
    /\ UNCHANGED <<svars, tvars, se, mst, xvars>>

\* ... *has_reports.lock() = true, ...
HrSet ==
    /\ hr.w = "sent"
    /\ hr.mutex = "free"
    /\ hr' = [hr EXCEPT !.has_reports = TRUE, !.w = "set"]
    /\ UNCHANGED <<svars, tvars, se, mst, xvars>>

\* ... condition.notify_one()
HrNotify ==
    /\ hr.w = "set"
    /\ hr' = [hr EXCEPT !.w = "idle", !.notified = (hr.c = "waiting")]
    /\ UNCHANGED <<svars, tvars, se, mst, xvars>>

\* A try_recv_report that takes the channel without the mutex
AbLockNot ==
    /\ mode = "ab"
    /\ hr.c = "idle"
    /\ hr' = [hr EXCEPT !.c = "try"]
    /\ UNCHANGED <<svars, tvars, se, mst, xvars>>

\* AlphabetaSearcher::try_recv_report:
\* let mut has_reports = self.has_reports_condition.0.lock().unwrap();
AbLock ==
    /\ mode = "ab"
    /\ hr.c = "idle"
    /\ hr.mutex = "free"
    /\ hr' = [hr EXCEPT !.mutex = "caller", !.c = "try"]
    /\ UNCHANGED <<svars, tvars, se, mst, xvars>>

\* thread_reports.try_recv() of the caller in state h: the channel gives its
\* first report, or Err when it is empty
TryRecv(h) ==
    IF h.thread_reports > 0
    THEN [h EXCEPT !.thread_reports = @ - 1, !.result = "ok",
                   !.locked = (h.mutex = "caller")]
    ELSE [h EXCEPT !.result = "err", !.locked = (h.mutex = "caller")]

\* let result = self.thread_reports.try_recv(); with Ok the guard is dropped
\* and the result returned
AbTryRecv ==
    /\ mode = "ab"
    /\ hr.c = "try"
    /\ hr' = IF TryRecv(hr).result = "ok"
             THEN [TryRecv(hr) EXCEPT !.c = "idle", !.mutex = "free"]
             ELSE [TryRecv(hr) EXCEPT !.c = "clear"]
    /\ UNCHANGED <<svars, tvars, se, mst, xvars>>

\* `*has_reports = false` of the caller in state h, and the end of the call
Clear(h) ==
    [h EXCEPT !.has_reports = FALSE, !.mutex = "free", !.c = "idle",
              !.cleared = IF h.result = "err" /\ h.locked
                          THEN "empty-locked" ELSE "other"]

\* if result.is_err() { *has_reports = false; } and the guard is dropped
AbClear ==
    /\ mode = "ab"
    /\ hr.c = "clear"
    /\ hr' = Clear(hr)
    /\ UNCHANGED <<svars, tvars, se, mst, xvars>>

\* SimpleSearcher::try_recv_report:
\* let result = self.thread_reports.try_recv();
SimTryRecv ==
    /\ mode = "simple"
    /\ hr.c = "idle"
    /\ hr' = IF TryRecv(hr).result = "ok"
             THEN TryRecv(hr)
             ELSE [TryRecv(hr) EXCEPT !.c = "clear"]
    /\ UNCHANGED <<svars, tvars, se, mst, xvars>>

\* if result.is_err() { *self.has_reports_condition.0.lock().unwrap() = false; }
SimClear ==
    /\ mode = "simple"
    /\ hr.c = "clear"
    /\ hr.mutex = "free"
    /\ hr' = Clear(hr)
    /\ UNCHANGED <<svars, tvars, se, mst, xvars>>

\* wait_report (the same code in both searchers): with the mutex, if
\* !*has_reports the caller waits; wait_timeout releases the mutex and
\* blocks in one step
WaitReport ==
    /\ hr.c = "idle"
    /\ hr.mutex = "free"
    /\ hr' = IF hr.has_reports
             THEN [hr EXCEPT !.waited = "passed", !.lost = FALSE]
             ELSE [hr EXCEPT !.c = "waiting", !.waited = "blocked",
                             !.notified = FALSE, !.lost = Announced(hr)]
    /\ UNCHANGED <<svars, tvars, se, mst, xvars>>

\* wait_timeout returns, notified or at the end of `duration`, with the
\* mutex again, and wait_report returns
WaitWake ==
    /\ hr.c = "waiting"
    /\ hr.mutex = "free"
    /\ hr' = [hr EXCEPT !.c = "idle"]
    /\ UNCHANGED <<svars, tvars, se, mst, xvars>>

(***************************************************************************)
(* Move and MoveStack (chess_move.rs).                                     *)
(*                                                                         *)
(* A Move is a u64: the move score in bits 32-63, the move itself and the  *)
(* undo information in bits 0-31.  Here it is the record of its two        *)
(* halves; the derived ordering of the u64 compares the score first.       *)
(***************************************************************************)
MaxStackLen == 3    \* moves in the MoveStack, all lists together
MaxPly == 1         \* saved move lists

\* u32::MAX in the source; the largest number the model has
MOVE_SCORE_MAX == 2147483647

\* Move: #[derive(PartialOrd, Ord)] on Move(u64)
Greater(a, b) == a.score > b.score \/ (a.score = b.score /\ a.bits > b.bits)

\* Move::set_score
set_score(m, score) == [m EXCEPT !.score = score]

\* Move::digest: the least significant 16 bits
digest(m) == m.bits % 65536

\* MoveStack::new
MoveStackNew == [moves |-> <<>>, savepoints |-> <<>>, first_move_index |-> 0]

\* What a method gives: the stack after it, the returned Option<Move> (<<>>
\* is None, <<m>> is Some(m)), and whether it panicked
Gives(s, ret) == [s |-> s, ret |-> ret, panic |-> FALSE]
Panics(s) == [s |-> s, ret |-> <<>>, panic |-> TRUE]

\* assert!(self.moves.len() >= self.first_move_index)
LenAsserted(s) == Len(s.moves) >= s.first_move_index

\* The current move list: self.moves[self.first_move_index..]
iter(s) == SubSeq(s.moves, s.first_move_index + 1, Len(s.moves))

\* MoveStack::save
save(s) ==
    Gives([s EXCEPT !.savepoints = Append(@, s.first_move_index),
                    !.first_move_index = Len(s.moves)], <<>>)

\* MoveStack::restore: Vec::truncate does nothing when the vector is
\* shorter; savepoints.pop().unwrap() panics without a savepoint
restore(s) ==
    IF s.savepoints = <<>>
    THEN Panics([s EXCEPT !.moves = SubSeq(@, 1, Min(Len(@), s.first_move_index))])
    ELSE Gives([moves |-> SubSeq(s.moves, 1, Min(Len(s.moves), s.first_move_index)),
                savepoints |-> SubSeq(s.savepoints, 1, Len(s.savepoints) - 1),
                first_move_index |-> s.savepoints[Len(s.savepoints)]], <<>>)

\* MoveStack::ply
ply(s) == Len(s.savepoints)

\* MoveStack::push
push(s, m) ==
    IF ~LenAsserted(s) THEN Panics(s)
    ELSE Gives([s EXCEPT !.moves = Append(@, m)], <<>>)

\* MoveStack::pop: self.moves.pop(), the last move of the whole vector
pop(s) ==
    IF ~LenAsserted(s) THEN Panics(s)
    ELSE IF s.moves = <<>> THEN Gives(s, <<>>)
    ELSE Gives([s EXCEPT !.moves = SubSeq(@, 1, Len(@) - 1)],
               <<s.moves[Len(s.moves)]>>)

SetMin(S) == CHOOSE x \in S : \A y \in S : x <= y

\* The places of the current move list that hold a move with the digest
Holding(s, move_digest) ==
    {i \in (s.first_move_index + 1)..Len(s.moves) :
        digest(s.moves[i]) = move_digest}

\* MoveStack::remove_move: the first move of the current list with the
\* digest is overwritten with the last move of the vector, which is popped
remove_move(s, move_digest) ==
    IF ~LenAsserted(s) THEN Panics(s)
    ELSE IF s.moves = <<>> \/ Holding(s, move_digest) = {} THEN Gives(s, <<>>)
    ELSE Gives([s EXCEPT !.moves =
                   SubSeq([@ EXCEPT ![SetMin(Holding(s, move_digest))] =
                               s.moves[Len(s.moves)]],
                          1, Len(@) - 1)],
               <<s.moves[SetMin(Holding(s, move_digest))]>>)

\* The loop of remove_best_move, j going down from i to the first place of
\* the current list: the best move so far is kept at place i
RECURSIVE BestLoop(_, _, _, _, _)
BestLoop(moves, m, i, j, first) ==
    IF Greater(moves[j], m)
    THEN IF j = first
         THEN [moves EXCEPT ![i] = moves[j], ![j] = m]
         ELSE BestLoop([moves EXCEPT ![i] = moves[j], ![j] = m],
                       moves[j], i, j - 1, first)
    ELSE IF j = first THEN moves
         ELSE BestLoop(moves, m, i, j - 1, first)

\* The vector without its last move, and that move
Popped(s, moves) ==
    Gives([s EXCEPT !.moves = SubSeq(moves, 1, Len(moves) - 1)],
          <<moves[Len(moves)]>>)

\* A remove_best_move that takes the last move of the current list
remove_last_move(s) ==
    IF ~LenAsserted(s) THEN Panics(s)
    ELSE IF Len(s.moves) > s.first_move_index
    THEN Popped(s, s.moves)
    ELSE Gives(s, <<>>)

\* MoveStack::remove_best_move
remove_best_move(s) ==
    IF ~LenAsserted(s) THEN Panics(s)
    ELSE IF Len(s.moves) > s.first_move_index
    THEN Popped(s, BestLoop(s.moves, s.moves[Len(s.moves)], Len(s.moves),
                            Len(s.moves), s.first_move_index + 1))
    ELSE Gives(s, <<>>)

\* iter_mut with set_score: every move of the current list gets the score
\* that `score` gives for it
Rescored(s, score(_)) ==
    [s EXCEPT !.moves =
        [i \in 1..Len(s.moves) |->
            IF i > s.first_move_index
            THEN set_score(s.moves[i], score(s.moves[i]))
            ELSE s.moves[i]]]

\* The caller of a MoveStack: the moves it pushes and the digests it asks for
MstMoves ==
    {[score |-> MOVE_SCORE_MAX, bits |-> 2], [score |-> 0, bits |-> 65537],
     [score |-> 0, bits |-> 2]}
MstDigests == {1, 2}

\* The stack, the last call and what it gave;
\* for each saved list what the current list and ply() were at its save(),
\* and those of the save() that the last restore() matched
NoSnap == [list |-> <<>>, ply |-> 0]

MstInit ==
    [s |-> MoveStackNew, op |-> "new", ret |-> <<>>, panic |-> FALSE,
     snaps |-> <<>>, snap |-> NoSnap]

MstCalled(op, g, snaps, snap) ==
    [s |-> g.s, op |-> op, ret |-> g.ret, panic |-> g.panic,
     snaps |-> snaps, snap |-> snap]

MstSave ==
    /\ ~mst.panic
    /\ ply(mst.s) < MaxPly
    /\ mst' = MstCalled("save", save(mst.s),
                        Append(mst.snaps, [list |-> iter(mst.s), ply |-> ply(mst.s)]),
                        NoSnap)
    /\ UNCHANGED <<svars, tvars, hr, se, xvars>>

MstRestore ==
    /\ ~mst.panic
    /\ mst' = IF mst.snaps = <<>>
              THEN MstCalled("restore", restore(mst.s), <<>>, NoSnap)
              ELSE MstCalled("restore", restore(mst.s),
                             SubSeq(mst.snaps, 1, Len(mst.snaps) - 1),
                             mst.snaps[Len(mst.snaps)])
    /\ UNCHANGED <<svars, tvars, hr, se, xvars>>

MstPush ==
    /\ ~mst.panic
    /\ Len(mst.s.moves) < MaxStackLen
    /\ \E m \in MstMoves :
          mst' = MstCalled("push", push(mst.s, m), mst.snaps, NoSnap)
    /\ UNCHANGED <<svars, tvars, hr, se, xvars>>

MstPop ==
    /\ ~mst.panic
    /\ mst' = MstCalled("pop", pop(mst.s), mst.snaps, NoSnap)
    /\ UNCHANGED <<svars, tvars, hr, se, xvars>>

MstRemoveMove ==
    /\ ~mst.panic
    /\ \E d \in MstDigests :
          mst' = MstCalled("remove_move", remove_move(mst.s, d), mst.snaps, NoSnap)
    /\ UNCHANGED <<svars, tvars, hr, se, xvars>>

MstRemoveBestMove ==
    /\ ~mst.panic
    /\ mst' = MstCalled("remove_best_move", remove_best_move(mst.s), mst.snaps, NoSnap)
    /\ UNCHANGED <<svars, tvars, hr, se, xvars>>

(***************************************************************************)
(* Search (engine/search.rs): one node.                                    *)
(*                                                                         *)
(* The position is the game `game` the search was made for and the moves   *)
(* `played` from its root.  `game.gen` is what generate_moves pushes,      *)
(* `game.legal` the bits of the moves that position.do_move accepts,       *)
(* `game.bad` the bits of the moves with a negative static exchange        *)
(* evaluation, `game.check` whether the side to move is in check.          *)
(***************************************************************************)
MOVE_PROMOTION == 1
MOVE_NORMAL == 3

\* Move::new: the score of a new move, and its bits (the digest in bits
\* 0-15, of the other fields only whether a piece is captured, as bit 16)
MoveNew(move_type, orig_square, dest_square, captures, promoted_piece_code) ==
    [score |-> IF move_type = MOVE_PROMOTION
               THEN (IF promoted_piece_code = 0
                     THEN MOVE_SCORE_MAX ELSE MOVE_SCORE_MAX - 1)
               ELSE (IF captures THEN MOVE_SCORE_MAX ELSE 0),
     bits |-> (IF captures THEN 65536 ELSE 0) + move_type * 16384
              + orig_square * 256 + dest_square * 4
              + (IF move_type = MOVE_PROMOTION THEN promoted_piece_code ELSE 0)]

\* rank(m.dest_square())
DestRank(m) == ((m.bits \div 4) % 64) \div 8

\* NodePhase, in the order of its declaration
NodePhase ==
    <<"Pristine", "TriedNullMove", "TriedHashMove", "GeneratedMoves",
      "TriedGoodCaptures", "TriedBadCaptures", "SortedQuietMoves">>

\* The last NodeState of state_stack, and its phase set
Top(s) == s.state_stack[Len(s.state_stack)]
SetPhase(s, phase) == [s EXCEPT !.state_stack[Len(s.state_stack)].phase = phase]

\* position.do_move(m) gives true
PosLegal(s, m) == m.bits \in s.game.legal

\* position.do_move(m), m legal, and Some(m) returned by do_move
Played(s, m, ret) ==
    [s |-> [s EXCEPT !.played = Append(@, m.bits),
                     !.log = Append(@, <<"move", m.bits>>)],
     ret |-> <<ret>>, again |-> FALSE]

\* `continue` in the loop of do_move
Continue(s) == [s |-> s, ret |-> <<>>, again |-> TRUE]

\* position.try_move_digest: the move that generate_moves gives with this
\* digest, if there is one
try_move_digest(s, move_digest) ==
    SelectSeq(s.game.gen, LAMBDA m : digest(m) = move_digest)

\* position.generate_moves(self.moves)
RECURSIVE PushAll(_, _)
PushAll(stack, gen) ==
    IF gen = <<>> THEN stack ELSE PushAll(push(stack, Head(gen)).s, Tail(gen))

\* SCORE_LOOKUP[to_move][rank]: white is to move
QuietScore(m) == DestRank(m)

\* do_move, the quiet moves: the move list gets its scores first
SpitQuiet(s, m) ==
    IF PosLegal(s, m)
    THEN Played(s, m, IF s.game.check THEN set_score(m, MOVE_SCORE_MAX - 1) ELSE m)
    ELSE Continue(s)

SortQuiet(s, m) ==
    IF Top(s).phase = "TriedBadCaptures"
    THEN SpitQuiet(SetPhase([s EXCEPT !.moves = Rescored(@, QuietScore)],
                            "SortedQuietMoves"), m)
    ELSE SpitQuiet(s, m)

\* do_move, the bad captures
SpitBad(s, m) ==
    IF Top(s).phase = "TriedGoodCaptures"
    THEN IF m.score = MOVE_SCORE_MAX - 1
         THEN IF PosLegal(s, m) THEN Played(s, m, m)
              ELSE Continue(s)
         ELSE SortQuiet(SetPhase(s, "TriedBadCaptures"), m)
    ELSE SortQuiet(s, m)

\* A loop that plays a capture without its static exchange evaluation
SpitGoodAny(s, m) ==
    IF Top(s).phase = "GeneratedMoves"
    THEN IF m.score = MOVE_SCORE_MAX
         THEN IF PosLegal(s, m) THEN Played(s, m, m) ELSE Continue(s)
         ELSE SpitBad(SetPhase(s, "TriedGoodCaptures"), m)
    ELSE SpitBad(s, m)

\* do_move, the good captures: one round of the loop with the move m that
\* remove_best_move gave
SpitGood(s, m) ==
    IF Top(s).phase = "GeneratedMoves"
    THEN IF m.score = MOVE_SCORE_MAX
         THEN IF m.bits \notin s.game.bad
              THEN IF PosLegal(s, m) THEN Played(s, m, m)
                   ELSE Continue(s)
              ELSE Continue([s EXCEPT !.moves =
                                push(@, set_score(m, MOVE_SCORE_MAX - 1)).s])
         ELSE SpitBad(SetPhase(s, "TriedGoodCaptures"), m)
    ELSE SpitBad(s, m)

\* while let Some(mut m) = self.moves.remove_best_move() { ... } None
RECURSIVE SpitOut(_)
SpitAgain(r) == IF r.again THEN SpitOut(r.s) ELSE r

Spat(s, best) ==
    IF best.ret = <<>> THEN [s |-> s, ret |-> <<>>, again |-> FALSE]
    ELSE SpitAgain(SpitGood([s EXCEPT !.moves = best.s], best.ret[1]))

SpitOut(s) == Spat(s, remove_best_move(s.moves))

\* A generation that leaves the hash move in the list
GeneratedAll(s) ==
    IF Top(s).phase = "TriedHashMove"
    THEN SetPhase([s EXCEPT !.moves = PushAll(@, s.game.gen)], "GeneratedMoves")
    ELSE s

\* do_move after the hash move: the moves are generated and the hash move
\* is taken from the list
Generated(s) ==
    IF Top(s).phase = "TriedHashMove"
    THEN SetPhase(
           [s EXCEPT !.moves =
               IF Top(s).entry.move16 # 0
               THEN remove_move(PushAll(@, s.game.gen), Top(s).entry.move16).s
               ELSE PushAll(@, s.game.gen)],
           "GeneratedMoves")
    ELSE s

\* do_move, the hash move
HashMove(s) ==
    IF Top(s).entry.move16 # 0
    THEN SelectSeq(try_move_digest(s, Top(s).entry.move16),
                   LAMBDA m : PosLegal(s, m))
    ELSE <<>>

\* Search::do_move; the phase is not Pristine when run calls it
do_move(s) ==
    IF Top(s).phase = "TriedNullMove"
    THEN IF HashMove(s) # <<>>
         THEN Played(SetPhase(s, "TriedHashMove"), HashMove(s)[1],
                     set_score(HashMove(s)[1], MOVE_SCORE_MAX))
         ELSE SpitOut(Generated(SetPhase(s, "TriedHashMove")))
    ELSE SpitOut(Generated(s))

\* Search::undo_move
undo_move(s) == [s EXCEPT !.played = SubSeq(@, 1, Len(@) - 1)]

(***************************************************************************)
(* Search (engine/search.rs): run.                                         *)
(*                                                                         *)
(* The transposition table is the map from the hashes stored to the entry  *)
(* stored last; the hash of a position is the list of the moves played.    *)
(* report_function answers true at its call number `stop`.  `log` is the   *)
(* history of the run: the nodes given to report_progress, the calls of    *)
(* report_function, the moves played on the position and the stores.       *)
(***************************************************************************)
MaxRunDepth == 3    \* the depth given to run
MaxStop == 2        \* the call at which report_function answers true

\* super::NODE_COUNT_REPORT_INTERVAL and super::R
NODE_COUNT_REPORT_INTERVAL == 2
R == 2

\* Move::invalid()
MoveInvalid == [score |-> 0, bits |-> 0]

\* EntryData::new(value, bound, depth, move16, eval_value)
EntryData(value, bnd, depth, move16, eval_value) ==
    [value |-> value, bound |-> bnd, depth |-> depth, move16 |-> move16,
     eval_value |-> eval_value]

\* bound & BOUND_LOWER != 0, bound & BOUND_UPPER != 0
HasBound(bnd, bit) == (bnd \div bit) % 2 = 1

\* Search::new
SearchNew(root, table, move_stack, stop) ==
    [game |-> root, played |-> <<>>, tt |-> table, moves |-> move_stack,
     moves_starting_ply |-> ply(move_stack), state_stack |-> <<>>,
     reported_nodes |-> 0, unreported_nodes |-> 0,
     stop |-> stop, calls |-> 0, log |-> <<>>]

\* What run, node_begin and report_progress give: Ok(value), Ok(Some(value))
\* (ret is <<value>>), Ok(None) or Ok(()) (ret is <<>>), Err(TerminatedSearch)
Ok(s, ret) == [s |-> s, ok |-> TRUE, ret |-> ret]
TerminatedSearch(s) == [s |-> s, ok |-> FALSE, ret |-> <<>>]

\* Search::node_count
node_count(s) == s.reported_nodes + s.unreported_nodes

\* Search::reset
RECURSIVE Restored(_, _)
Restored(stack, starting_ply) ==
    IF ply(stack) > starting_ply
    THEN Restored(restore(stack).s, starting_ply)
    ELSE stack

reset(s) ==
    [s EXCEPT !.moves = Restored(@, s.moves_starting_ply),
              !.state_stack = <<>>,
              !.reported_nodes = 0,
              !.unreported_nodes = 0]

\* (*self.report_function)(self.reported_nodes)
Reported(s) ==
    IF s.calls + 1 = s.stop
    THEN TerminatedSearch([s EXCEPT !.calls = @ + 1,
                                    !.log = Append(@, <<"report", s.reported_nodes>>)])
    ELSE Ok([s EXCEPT !.calls = @ + 1,
                      !.log = Append(@, <<"report", s.reported_nodes>>)], <<>>)

\* A report_progress that goes on after report_function answered true
report_progress_on(s, new_nodes) ==
    IF s.unreported_nodes + new_nodes >= NODE_COUNT_REPORT_INTERVAL
    THEN Ok(Reported([s EXCEPT !.reported_nodes = @ + s.unreported_nodes + new_nodes,
                               !.unreported_nodes = 0,
                               !.log = Append(@, <<"nodes", new_nodes>>)]).s, <<>>)
    ELSE Ok([s EXCEPT !.unreported_nodes = @ + new_nodes,
                      !.log = Append(@, <<"nodes", new_nodes>>)], <<>>)

\* Search::report_progress
report_progress(s, new_nodes) ==
    IF s.unreported_nodes + new_nodes >= NODE_COUNT_REPORT_INTERVAL
    THEN Reported([s EXCEPT !.reported_nodes = @ + s.unreported_nodes + new_nodes,
                            !.unreported_nodes = 0,
                            !.log = Append(@, <<"nodes", new_nodes>>)])
    ELSE Ok([s EXCEPT !.unreported_nodes = @ + new_nodes,
                      !.log = Append(@, <<"nodes", new_nodes>>)], <<>>)

\* self.tt.store(self.position.hash(), entry)
TtStored(s, hash, entry) ==
    [s EXCEPT !.tt = (hash :> entry) @@ s.tt,
              !.log = Append(@, <<"store", Len(hash), entry.value, entry.bound,
                                  entry.depth>>)]

\* Search::store
SearchStore(s, value, bnd, depth, best_move) ==
    TtStored(s, s.played,
             EntryData(value, bnd, depth, digest(best_move), Top(s).entry.eval_value))

\* A seeded fault: the move list is restored at a pristine node too.
node_end_restoring(s) ==
    [s EXCEPT !.moves = restore(@).s,
              !.state_stack = SubSeq(@, 1, Len(@) - 1)]

\* Search::node_end
node_end(s) ==
    [s EXCEPT !.moves = IF Top(s).phase = "Pristine" THEN @ ELSE restore(@).s,
              !.state_stack = SubSeq(@, 1, Len(@) - 1)]

RECURSIVE run(_, _, _, _, _)
RECURSIVE TryMoves(_, _, _, _, _, _, _)

\* node_begin: the TT entry, or a new entry with the static evaluation, is
\* pushed as the state of the node
Entered(s) ==
    [s EXCEPT !.state_stack =
        Append(@, [phase |-> "Pristine",
                   entry |-> IF s.played \in DOMAIN s.tt
                             THEN s.tt[s.played]
                             ELSE EntryData(0, BOUND_NONE, 0, 0, s.game.eval)])]

\* node_begin on a leaf, after report_progress(nodes): the value of the
\* quiescence search is stored
Quiesced(rp, value, alpha, beta) ==
    IF ~rp.ok THEN rp
    ELSE IF value >= beta
    THEN Ok(TtStored(rp.s, rp.s.played,
                     EntryData(beta, BOUND_LOWER, 0, 0, Top(rp.s).entry.eval_value)),
            <<beta>>)
    ELSE IF value <= alpha
    THEN Ok(TtStored(rp.s, rp.s.played,
                     EntryData(alpha, BOUND_UPPER, 0, 0, Top(rp.s).entry.eval_value)),
            <<alpha>>)
    ELSE Ok(TtStored(rp.s, rp.s.played,
                     EntryData(value, BOUND_EXACT, 0, 0, Top(rp.s).entry.eval_value)),
            <<value>>)

\* node_begin, after the search of the null move
NullSearched(r, beta, depth) ==
    IF ~r.ok THEN r
    ELSE IF -r.ret[1] >= beta
    THEN Ok(TtStored(undo_move(r.s), undo_move(r.s).played,
                     EntryData(beta, BOUND_LOWER, depth, 0,
                               Top(r.s).entry.eval_value)),
            <<beta>>)
    ELSE Ok(undo_move(r.s), <<>>)

\* The null move: a king's move from and to the same square
NullMoveBits == 3 * 16384 + 4 * 256 + 4 * 4

\* A seeded fault: null moves stay allowed in the search after a null move.
NullMovedTwice(s, alpha, beta, depth, null_move_allowed) ==
    IF null_move_allowed /\ Top(s).entry.eval_value >= beta
    THEN IF /\ Top(s).entry.depth >= Max(0, depth - R)
            /\ Top(s).entry.value < beta
            /\ HasBound(Top(s).entry.bound, BOUND_UPPER)
         THEN Ok(s, <<>>)
         ELSE IF ~s.game.check
         THEN NullSearched(
                run([s EXCEPT !.played = Append(@, NullMoveBits),
                              !.log = Append(@, <<"move", NullMoveBits>>)],
                    -beta, -alpha, Max(0, depth - R - 1), TRUE),
                beta, depth)
         ELSE Ok(s, <<>>)
    ELSE Ok(s, <<>>)

\* node_begin: the null move is tried
NullMoved(s, alpha, beta, depth, null_move_allowed) ==
    IF null_move_allowed /\ Top(s).entry.eval_value >= beta
    THEN IF /\ Top(s).entry.depth >= Max(0, depth - R)
            /\ Top(s).entry.value < beta
            /\ HasBound(Top(s).entry.bound, BOUND_UPPER)
         THEN Ok(s, <<>>)
         ELSE IF ~s.game.check
         THEN NullSearched(
                run([s EXCEPT !.played = Append(@, NullMoveBits),
                              !.log = Append(@, <<"move", NullMoveBits>>)],
                    -beta, -alpha, Max(0, depth - R - 1), FALSE),
                beta, depth)
         ELSE Ok(s, <<>>)
    ELSE Ok(s, <<>>)

\* node_begin after the push of the node's state
Begun(s, alpha, beta, depth, null_move_allowed) ==
    IF /\ Top(s).entry.depth >= depth
       /\ Top(s).entry.value >= beta
       /\ HasBound(Top(s).entry.bound, BOUND_LOWER)
    THEN Ok(s, <<beta>>)
    ELSE IF /\ Top(s).entry.depth >= depth
            /\ Top(s).entry.value <= alpha
            /\ HasBound(Top(s).entry.bound, BOUND_UPPER)
    THEN Ok(s, <<alpha>>)
    ELSE IF Top(s).entry.depth >= depth /\ Top(s).entry.bound = BOUND_EXACT
    THEN Ok(s, <<Top(s).entry.value>>)
    ELSE IF depth = 0
    THEN Quiesced(report_progress(s, s.game.qnodes), Top(s).entry.eval_value,
                  alpha, beta)
    ELSE NullMoved([SetPhase(s, "TriedNullMove") EXCEPT !.moves = save(@).s],
                   alpha, beta, depth, null_move_allowed)

\* Search::node_begin
node_begin(s, alpha, beta, depth, null_move_allowed) ==
    Begun(Entered(s), alpha, beta, depth, null_move_allowed)

\* The end of the loop of run: the state, alpha, the bound and the best move
Tried(s, alpha, bnd, best_move, no_moves_yet) ==
    [s |-> s, ok |-> TRUE, alpha |-> alpha, bound |-> bnd,
     best_move |-> best_move, no_moves_yet |-> no_moves_yet]

TriedErr(s) ==
    [s |-> s, ok |-> FALSE, alpha |-> 0, bound |-> BOUND_NONE,
     best_move |-> MoveInvalid, no_moves_yet |-> FALSE]

\* run: the move m has the value of the recursive call r; undo_move
Valued(r, m, alpha, beta, depth, bnd, best_move) ==
    IF ~r.ok THEN TriedErr(r.s)
    ELSE IF -r.ret[1] >= beta
    THEN Tried(undo_move(r.s), beta, BOUND_LOWER, m, FALSE)
    ELSE IF -r.ret[1] > alpha
    THEN TryMoves(undo_move(r.s), -r.ret[1], beta, depth, BOUND_EXACT, m, FALSE)
    ELSE TryMoves(undo_move(r.s), alpha, beta, depth, bnd, best_move, FALSE)

\* run: the null window search r of a later move, and the full window
\* search when it is better than alpha
NullWindow(r, m, alpha, beta, depth, bnd, best_move) ==
    IF ~r.ok THEN TriedErr(r.s)
    ELSE IF -r.ret[1] <= alpha
    THEN Valued(r, m, alpha, beta, depth, bnd, best_move)
    ELSE Valued(run(r.s, -beta, -alpha, depth - 1, TRUE),
                m, alpha, beta, depth, bnd, best_move)

\* run: try!(self.report_progress(1)) and the recursive call
Searched(rp, m, alpha, beta, depth, bnd, best_move, no_moves_yet) ==
    IF ~rp.ok THEN TriedErr(rp.s)
    ELSE IF no_moves_yet
    THEN Valued(run(rp.s, -beta, -alpha, depth - 1, TRUE),
                m, alpha, beta, depth, bnd, best_move)
    ELSE NullWindow(run(rp.s, -alpha - 1, -alpha, depth - 1, TRUE),
                    m, alpha, beta, depth, bnd, best_move)

\* run: while let Some(m) = self.do_move() { ... }
Moved(dm, alpha, beta, depth, bnd, best_move, no_moves_yet) ==
    IF dm.ret = <<>>
    THEN Tried(dm.s, alpha, bnd, best_move, no_moves_yet)
    ELSE Searched(report_progress(dm.s, 1), dm.ret[1],
                  alpha, beta, depth, bnd, best_move, no_moves_yet)

TryMoves(s, alpha, beta, depth, bnd, best_move, no_moves_yet) ==
    Moved(do_move(s), alpha, beta, depth, bnd, best_move, no_moves_yet)

\* run: the final position (a value above beta is first cut to beta and then
\* taken as it is), the store and node_end
Finished(t, beta, depth) ==
    IF ~t.ok THEN TerminatedSearch(t.s)
    ELSE IF t.no_moves_yet /\ t.s.game.final = beta
    THEN Ok(node_end(SearchStore(t.s, beta, BOUND_LOWER, depth, t.best_move)),
            <<beta>>)
    ELSE IF t.no_moves_yet /\ t.s.game.final > t.alpha
    THEN Ok(node_end(SearchStore(t.s, t.s.game.final, BOUND_EXACT, depth,
                                 t.best_move)),
            <<t.s.game.final>>)
    ELSE Ok(node_end(SearchStore(t.s, t.alpha, t.bound, depth, t.best_move)),
            <<t.alpha>>)

\* run after node_begin
Ran(nb, alpha, beta, depth) ==
    IF ~nb.ok THEN nb
    ELSE IF nb.ret # <<>>
    THEN Ok(node_end(nb.s), nb.ret)
    ELSE Finished(TryMoves(nb.s, alpha, beta, depth, BOUND_UPPER, MoveInvalid, TRUE),
                  beta, depth)

\* History: run is entered with these arguments, the move stack and the
\* stack of node states being this high, after this many moves
RunCalled(s, alpha, beta, depth, null_move_allowed) ==
    [s EXCEPT !.log = Append(@, <<"call", alpha, beta, depth, null_move_allowed,
                                  ply(s.moves), Len(s.state_stack),
                                  Len(s.played)>>)]

\* History: run returns Ok(value)
RunReturned(r) ==
    IF r.ok
    THEN [r EXCEPT !.s.log = Append(@, <<"ret", r.ret[1], ply(r.s.moves),
                                         Len(r.s.state_stack)>>)]
    ELSE r

\* Search::run
run(s, alpha, beta, depth, null_move_allowed) ==
    RunReturned(Ran(node_begin(RunCalled(s, alpha, beta, depth, null_move_allowed),
                               alpha, beta, depth, null_move_allowed),
                    alpha, beta, depth))

(***************************************************************************)
(* The callers of Search.                                                  *)
(***************************************************************************)
MaxGen == 5         \* moves that generate_moves gives at the node
MaxRuns == 1        \* calls of run

\* The moves of the games: quiet moves to the ranks 2 and 3, captures, an
\* under-promotion and a promotion to queen
AllGen ==
    <<MoveNew(MOVE_NORMAL, 8, 16, FALSE, 0), MoveNew(MOVE_NORMAL, 12, 28, TRUE, 0),
      MoveNew(MOVE_PROMOTION, 52, 60, FALSE, 1), MoveNew(MOVE_NORMAL, 9, 25, FALSE, 0),
      MoveNew(MOVE_NORMAL, 13, 29, TRUE, 0), MoveNew(MOVE_PROMOTION, 51, 59, FALSE, 0)>>

BitsOf(gen) == {gen[i].bits : i \in 1..Len(gen)}
MaxScored(gen) ==
    {gen[i].bits : i \in {j \in 1..Len(gen) : gen[j].score = MOVE_SCORE_MAX}}

Games(gen, evals, nodes) ==
    {[gen |-> gen, legal |-> l, bad |-> b, check |-> c,
      eval |-> e, qnodes |-> n, final |-> 0] :
        l \in SUBSET BitsOf(gen), b \in SUBSET MaxScored(gen), c \in BOOLEAN,
        e \in evals, n \in nodes}

\* The move stack given to Search::new: a saved list and a current list
StartStack == push(save(push(MoveStackNew, AllGen[1]).s).s, AllGen[2]).s

\* The search and the last call: what it gave, the moves that the calls of
\* do_move at the node returned with the phase after each call, the number
\* of runs
SeCalled(s, op, ok, ret, returned, runs) ==
    [s |-> s, op |-> op, ok |-> ok, ret |-> ret, returned |-> returned,
     runs |-> runs]

\* A node of a game at depth 1 with the hash move h in the table, after
\* node_begin
NodeInit(g, h) ==
    SeCalled(node_begin(SearchNew(g, <<>> :> EntryData(0, BOUND_NONE, 0, h, 0),
                                  StartStack, 0),
                        -1, 1, 1, FALSE).s,
             "node_begin", TRUE, <<>>, <<>>, 0)

NodeDigests(gen) == {0, 7} \cup {digest(gen[i]) : i \in 1..Len(gen)}

RunInit(g, stop) ==
    SeCalled(SearchNew(g, <<>>, StartStack, stop), "new", TRUE, <<>>, <<>>, 0)

SeInits(m) ==
    IF m = "node"
    THEN {NodeInit(g, h) :
             g \in Games(SubSeq(AllGen, 1, MaxGen), {0}, {0}),
             h \in NodeDigests(SubSeq(AllGen, 1, MaxGen))}
    ELSE IF m = "run"
    THEN {RunInit(g, stop) :
             g \in Games(<<AllGen[1], AllGen[2], AllGen[4]>>, {-2, 1}, {0, 1, 2}),
             stop \in 0..MaxStop}
    ELSE {RunInit([gen |-> <<>>, legal |-> {}, bad |-> {}, check |-> FALSE,
                   eval |-> 0, qnodes |-> 0, final |-> 0], 0)}

\* do_move at the node, as run calls it
NodeMoved(r) ==
    SeCalled(r.s, "do_move", TRUE, r.ret,
             IF r.ret = <<>> THEN se.returned
             ELSE Append(se.returned, [m |-> r.ret[1], phase |-> Top(r.s).phase]),
             0)

NodeDoMove ==
    /\ mode = "node"
    /\ se.s.played = <<>>
    /\ se' = NodeMoved(do_move(se.s))
    /\ UNCHANGED <<svars, tvars, hr, mst, xvars>>

\* undo_move, as run calls it after the search of the move
NodeUndoMove ==
    /\ mode = "node"
    /\ se.s.played # <<>>
    /\ se' = SeCalled(undo_move(se.s), "undo_move", TRUE, <<>>, se.returned, 0)
    /\ UNCHANGED <<svars, tvars, hr, mst, xvars>>

RunWindows == {<<-2, 2>>, <<0, 1>>, <<-2, -1>>}

SeRan(r) == SeCalled(r.s, "run", r.ok, r.ret, <<>>, se.runs + 1)

\* run on a new or reset instance
SeRun ==
    /\ mode = "run"
    /\ se.op \in {"new", "reset"}
    /\ se.runs < MaxRuns
    /\ \E depth \in 0..MaxRunDepth, w \in RunWindows :
          se' = SeRan(run([se.s EXCEPT !.log = <<>>, !.calls = 0],
                          w[1], w[2], depth, TRUE))
    /\ UNCHANGED <<svars, tvars, hr, mst, xvars>>

\* reset after a run; the history of the run ends here
SeReset ==
    /\ mode = "run"
    /\ se.op = "run"
    /\ se' = SeCalled([reset(se.s) EXCEPT !.log = <<>>, !.calls = 0],
                    "reset", se.ok, se.ret, <<>>, se.runs)
    /\ UNCHANGED <<svars, tvars, hr, mst, xvars>>

(***************************************************************************)
(* Board (position/board.rs).  A bitboard is the set of its squares:       *)
(* square 0 is A1, square 7 is H1, square 63 is H8.  The modules           *)
(* basetypes, bitsets and board_geometry are not in src/; their constants  *)
(* and tables are given here by the meaning board.rs uses them with.       *)
(***************************************************************************)
MaxExtra == 2       \* pieces added to a scene

MOVE_ENPASSANT == 0
MOVE_CASTLING == 2

KING == 0
QUEEN == 1
ROOK == 2
BISHOP == 3
KNIGHT == 4
PAWN == 5
NO_PIECE == 6
WHITE == 0
BLACK == 1

Squares == 0..63
File(s) == s % 8
Rank(s) == s \div 8
Sq(f, r) == r * 8 + f
UNIVERSAL_SET == Squares
EMPTY_SET == {}
BB_RANK(r) == {s \in Squares : Rank(s) = r}
BB_FILE(f) == {s \in Squares : File(s) = f}
BB_RANK_1 == BB_RANK(0)
BB_RANK_4 == BB_RANK(3)
BB_RANK_5 == BB_RANK(4)
BB_RANK_8 == BB_RANK(7)
BB_FILE_A == BB_FILE(0)
BB_FILE_H == BB_FILE(7)

Abs(x) == IF x < 0 THEN 0 - x ELSE x
Sgn(x) == IF x > 0 THEN 1 ELSE IF x < 0 THEN 0 - 1 ELSE 0
FileDist(a, b) == Abs(File(a) - File(b))
RankDist(a, b) == Abs(Rank(a) - Rank(b))
Dist(a, b) == Max(FileDist(a, b), RankDist(a, b))
Straight(a, b) == a # b /\ (File(a) = File(b) \/ Rank(a) = Rank(b))
Diagonal(a, b) == a # b /\ FileDist(a, b) = RankDist(a, b)
Aligned(a, b) == Straight(a, b) \/ Diagonal(a, b)
Dir(a, b) == <<Sgn(File(b) - File(a)), Sgn(Rank(b) - Rank(a))>>

\* ls1b, bitscan_1bit, gen_shift (bitsets)
ls1b(bb) == IF bb = {} THEN {} ELSE {SetMin(bb)}
bitscan_1bit(bb) == CHOOSE s \in bb : TRUE
gen_shift(bb, shift) == {s + shift : s \in bb} \cap Squares

\* BoardGeometry: the look-up tables
attacks ==
    [piece \in KING..KNIGHT |-> [a \in Squares |->
        {b \in Squares :
            CASE piece = KING -> Dist(a, b) = 1
              [] piece = QUEEN -> Aligned(a, b)
              [] piece = ROOK -> Straight(a, b)
              [] piece = BISHOP -> Diagonal(a, b)
              [] OTHER -> {FileDist(a, b), RankDist(a, b)} = {1, 2}}]]

blockers_and_beyond ==
    [piece \in KING..KNIGHT |-> [a \in Squares |->
        IF piece \in {QUEEN, ROOK, BISHOP} THEN attacks[piece][a] ELSE {}]]

squares_behind_blocker ==
    [a \in Squares |-> [b \in Squares |->
        IF Aligned(a, b)
        THEN {s \in Squares :
                 Aligned(a, s) /\ Dir(a, s) = Dir(a, b) /\ Dist(a, s) > Dist(a, b)}
        ELSE {}]]

squares_between_including ==
    [a \in Squares |-> [b \in Squares |->
        IF Aligned(a, b)
        THEN {a} \cup {s \in Squares :
                 Aligned(a, s) /\ Dir(a, s) = Dir(a, b) /\ Dist(a, s) <= Dist(a, b)}
        ELSE {}]]

squares_at_line ==
    [a \in Squares |-> [b \in Squares |->
        IF Aligned(a, b)
        THEN {a} \cup {s \in Squares :
                 Aligned(a, s) /\ (Dir(a, s) = Dir(a, b) \/ Dir(s, a) = Dir(a, b))}
        ELSE {}]]

\* CastlingRights (basetypes): the set of the <<color, side>> that may
\* castle; side 0 is the queen side.  obstacles gives the squares between
\* the king and the rook, or every square when the right is not there.
CastlingRightsNew == {}
obstacles(castling, us, side) ==
    IF <<us, side>> \in castling
    THEN {Sq(f, 7 * us) : f \in (IF side = 0 THEN {1, 2, 3} ELSE {5, 6})}
    ELSE UNIVERSAL_SET

PAWN_PUSH == 0
PAWN_DOUBLE_PUSH == 1
PAWN_QUEENSIDE_CAPTURE == 2
PAWN_KINGSIDE_CAPTURE == 3
PAWN_MOVE_SHIFTS == <<<<8, 16, 7, 9>>, <<0 - 8, 0 - 16, 0 - 9, 0 - 7>>>>
PAWN_MOVE_QUIET == <<UNIVERSAL_SET, UNIVERSAL_SET, EMPTY_SET, EMPTY_SET>>
PAWN_MOVE_CANDIDATES ==
    <<Squares \ (BB_RANK_1 \cup BB_RANK_8),
      BB_RANK(1) \cup BB_RANK(6),
      Squares \ (BB_FILE_A \cup BB_RANK_1 \cup BB_RANK_8),
      Squares \ (BB_FILE_H \cup BB_RANK_1 \cup BB_RANK_8)>>
PAWN_PROMOTION_RANKS == BB_RANK_1 \cup BB_RANK_8
Shifts(us, move_type) == PAWN_MOVE_SHIFTS[us + 1][move_type + 1]
Xor(a, b) == (a \ b) \cup (b \ a)

\* Board::new
BoardNew(piece_type_array, color_array) ==
    [piece_type |-> piece_type_array,
     color |-> color_array,
     occupied |-> color_array[WHITE] \cup color_array[BLACK]]

piece_attacks_from(occupied, piece, square) ==
    attacks[piece][square] \
        UNION {squares_behind_blocker[square][b] :
                  b \in occupied \cap blockers_and_beyond[piece][square]}

attacks_to(piece_type_array, color_array, occupied, square, us) ==
    LET occupied_by_us == color_array[us]
        queens == piece_type_array[QUEEN]
        pawns == piece_type_array[PAWN]
    IN  (piece_attacks_from(occupied, ROOK, square) \cap occupied_by_us
             \cap (piece_type_array[ROOK] \cup queens))
        \cup (piece_attacks_from(occupied, BISHOP, square) \cap occupied_by_us
             \cap (piece_type_array[BISHOP] \cup queens))
        \cup (piece_attacks_from(occupied, KNIGHT, square) \cap occupied_by_us
             \cap piece_type_array[KNIGHT])
        \cup (piece_attacks_from(occupied, KING, square) \cap occupied_by_us
             \cap piece_type_array[KING])
        \cup ((gen_shift({square}, 0 - Shifts(us, PAWN_KINGSIDE_CAPTURE))
                 \cap occupied_by_us \cap pawns)
                 \ (BB_FILE_H \cup BB_RANK_1 \cup BB_RANK_8))
        \cup ((gen_shift({square}, 0 - Shifts(us, PAWN_QUEENSIDE_CAPTURE))
                 \cap occupied_by_us \cap pawns)
                 \ (BB_FILE_A \cup BB_RANK_1 \cup BB_RANK_8))

get_piece_type_at(piece_type_array, occupied, square_bb) ==
    IF square_bb \cap occupied = {} THEN NO_PIECE
    ELSE IF square_bb \cap piece_type_array[PAWN] # {} THEN PAWN
    ELSE IF square_bb \cap piece_type_array[KNIGHT] # {} THEN KNIGHT
    ELSE IF square_bb \cap piece_type_array[BISHOP] # {} THEN BISHOP
    ELSE IF square_bb \cap piece_type_array[ROOK] # {} THEN ROOK
    ELSE IF square_bb \cap piece_type_array[QUEEN] # {} THEN QUEEN
    ELSE KING

\* Move::new(move_type, orig_square, dest_square, aux_data) together with the
\* MoveScore::new(piece, captured_piece) it is pushed with
BoardMove(move_type, orig_square, dest_square, aux_data, piece, captured_piece) ==
    [move_type |-> move_type, orig_square |-> orig_square,
     dest_square |-> dest_square, aux_data |-> aux_data,
     piece |-> piece, captured_piece |-> captured_piece]

\* The moves the function pushes.  The pushes of one call differ in their
\* (move_type, orig_square, dest_square, aux_data), so that the counter the
\* function returns is the number of moves of the set.
write_piece_moves_to_stack(piece_type_array, occupied, piece, from_square, legal_dests) ==
    {BoardMove(MOVE_NORMAL, from_square, dest_square, 0, piece,
               get_piece_type_at(piece_type_array, occupied, {dest_square})) :
        dest_square \in piece_attacks_from(occupied, piece, from_square) \cap legal_dests}

pawn_dest_sets(occupied_by_us, occupied_by_them, us, pawns, en_passant_bb) ==
    LET capture_targets == occupied_by_them \cup en_passant_bb
        dest(move_type) ==
            (gen_shift(pawns \cap PAWN_MOVE_CANDIDATES[move_type + 1],
                       Shifts(us, move_type))
                \ occupied_by_us)
            \cap Xor(capture_targets, PAWN_MOVE_QUIET[move_type + 1])
    IN  [move_type \in 0..3 |->
            IF move_type = PAWN_DOUBLE_PUSH
            THEN dest(move_type) \cap gen_shift(dest(PAWN_PUSH), Shifts(us, PAWN_PUSH))
            ELSE dest(move_type)]

en_passant_special_check_ok(piece_type_array, occupied, occupied_by_them, us, king_square, orig_square, dest_square) ==
    LET the_two_pawns ==
            {orig_square} \cup gen_shift({0}, dest_square - Shifts(us, PAWN_PUSH))
    IN  piece_attacks_from(occupied \ the_two_pawns, ROOK, king_square)
            \cap (occupied_by_them \ the_two_pawns)
            \cap (piece_type_array[ROOK] \cup piece_type_array[QUEEN]) = {}

PawnMovesTo(piece_type_array, occupied, occupied_by_us, occupied_by_them, us, en_passant_bb, move_type, dest_square) ==
    LET orig_square == dest_square - Shifts(us, move_type)
        king_bb == piece_type_array[KING] \cap occupied_by_us
    IN  IF {dest_square} = en_passant_bb
        THEN IF \/ king_bb \cap (IF us = WHITE THEN BB_RANK_5 ELSE BB_RANK_4) = {}
                \/ en_passant_special_check_ok(piece_type_array, occupied,
                       occupied_by_them, us, bitscan_1bit(king_bb),
                       orig_square, dest_square)
             THEN {BoardMove(MOVE_ENPASSANT, orig_square, dest_square, 0, PAWN, PAWN)}
             ELSE {}
        ELSE IF dest_square \in PAWN_PROMOTION_RANKS
        THEN {BoardMove(MOVE_PROMOTION, orig_square, dest_square, pp_code, PAWN,
                        IF pp_code = 0 THEN QUEEN ELSE ROOK) : pp_code \in 0..3}
        ELSE {BoardMove(MOVE_NORMAL, orig_square, dest_square, 0, PAWN,
                        get_piece_type_at(piece_type_array, occupied, {dest_square}))}

PawnMovesIn(piece_type_array, occupied, occupied_by_us, occupied_by_them, us, en_passant_bb, dest_sets) ==
    UNION {PawnMovesTo(piece_type_array, occupied, occupied_by_us,
                       occupied_by_them, us, en_passant_bb, x[1], x[2]) :
              x \in {y \in (0..3) \X Squares : y[2] \in dest_sets[y[1]]}}

write_pawn_moves_to_stack(piece_type_array, occupied, occupied_by_us, occupied_by_them, us, pawns, en_passant_bb, legal_dests) ==
    PawnMovesIn(piece_type_array, occupied, occupied_by_us, occupied_by_them, us,
                en_passant_bb,
                [move_type \in 0..3 |->
                    pawn_dest_sets(occupied_by_us, occupied_by_them, us, pawns,
                                   en_passant_bb)[move_type] \cap legal_dests])

FINAL_SQUARES == <<<<2, 58>>, <<6, 62>>>>
PASSING_SQUARES == <<<<3, 59>>, <<5, 61>>>>

write_castling_moves_to_stack(piece_type_array, color_array, occupied, us, king_square, checkers, castling) ==
    IF checkers = EMPTY_SET
    THEN {BoardMove(MOVE_CASTLING, king_square, FINAL_SQUARES[side + 1][us + 1],
                    side, KING, NO_PIECE) :
             side \in {sd \in 0..1 :
                 /\ obstacles(castling, us, sd) \cap occupied = {}
                 /\ attacks_to(piece_type_array, color_array, occupied,
                               PASSING_SQUARES[sd + 1][us + 1], 1 - us) = {}}}
    ELSE {}

\* legal_dests of generate_pseudolegal_moves
LegalDests(not_occupied_by_us, king_square, checkers) ==
    not_occupied_by_us \cap
        (IF ls1b(checkers) = {} THEN UNIVERSAL_SET
         ELSE IF ls1b(checkers) = checkers
         THEN checkers \cup
              squares_between_including[king_square][bitscan_1bit(checkers)]
         ELSE EMPTY_SET)

\* the queen, rook, bishop and knight moves; the pawn moves; the king moves
PieceMoves(b, us, king_square, pinned, legal_dests) ==
    UNION {write_piece_moves_to_stack(b.piece_type, b.occupied, x[1], x[2],
               IF {x[2]} \cap pinned = {} THEN legal_dests
               ELSE legal_dests \cap squares_at_line[king_square][x[2]]) :
           x \in {y \in (QUEEN..KNIGHT) \X Squares :
                     y[2] \in b.piece_type[y[1]] \cap b.color[us]}}

PawnMoves(b, us, king_square, pinned, en_passant_bb, pawn_legal_dests) ==
    LET all_pawns == b.piece_type[PAWN] \cap b.color[us]
        pinned_pawns == all_pawns \cap pinned
        free_pawns == Xor(all_pawns, pinned_pawns)
    IN  (IF free_pawns # EMPTY_SET
         THEN write_pawn_moves_to_stack(b.piece_type, b.occupied, b.color[us],
                  b.color[1 - us], us, free_pawns, en_passant_bb, pawn_legal_dests)
         ELSE {})
        \cup UNION {write_pawn_moves_to_stack(b.piece_type, b.occupied,
                        b.color[us], b.color[1 - us], us, {pawn}, en_passant_bb,
                        squares_at_line[king_square][pawn] \cap pawn_legal_dests) :
                    pawn \in pinned_pawns}

KingMoves(b, us, king_square, checkers, castling) ==
    write_castling_moves_to_stack(b.piece_type, b.color, b.occupied, us,
                                  king_square, checkers, castling)
    \cup write_piece_moves_to_stack(b.piece_type, b.occupied, KING, king_square,
                                    Squares \ b.color[us])

Covering(b, us, king_square, checkers, pinned, en_passant_bb, legal_dests) ==
    IF legal_dests # EMPTY_SET
    THEN PieceMoves(b, us, king_square, pinned, legal_dests)
         \cup PawnMoves(b, us, king_square, pinned, en_passant_bb,
                        IF legal_dests = checkers
                        THEN legal_dests \cup en_passant_bb
                        ELSE legal_dests)
    ELSE {}

generate_pseudolegal_moves(b, us, king_square, checkers, pinned, en_passant_bb, castling) ==
    Covering(b, us, king_square, checkers, pinned, en_passant_bb,
             LegalDests(Squares \ b.color[us], king_square, checkers))
    \cup KingMoves(b, us, king_square, checkers, castling)

\* Board::calc_see.  SeeLoop gives the swap list `gain` with its last,
\* speculative entry, and whether the assertion of the loop held.
VALUE == <<10000, 975, 500, 325, 325, 100>>

\* a variant that finds no slider behind the piece that captured
consider_no_xrays(piece_type_array, occupied, target_square, xrayed_square) ==
    EMPTY_SET

consider_xrays(piece_type_array, occupied, target_square, xrayed_square) ==
    LET candidates ==
            occupied \cap squares_behind_blocker[target_square][xrayed_square]
        diag_attackers ==
            piece_attacks_from(candidates, BISHOP, target_square)
                \cap (piece_type_array[QUEEN] \cup piece_type_array[BISHOP])
        line_attackers ==
            piece_attacks_from(candidates, ROOK, target_square)
                \cap (piece_type_array[QUEEN] \cup piece_type_array[ROOK])
    IN  candidates \cap (diag_attackers \cup line_attackers)

get_least_valuable_piece_in_a_set(piece_type_array, set) ==
    IF \E p \in KING..PAWN : piece_type_array[p] \cap set # {}
    THEN LET p == CHOOSE q \in KING..PAWN :
                      /\ piece_type_array[q] \cap set # {}
                      /\ \A r \in (q + 1)..PAWN : piece_type_array[r] \cap set = {}
         IN  <<p, ls1b(piece_type_array[p] \cap set)>>
    ELSE <<NO_PIECE, EMPTY_SET>>

RECURSIVE SeeLoop(_, _, _, _, _, _, _, _, _)
SeeNext(b, to_square, attacking_color, occupied, attackers_and_defenders, gain, asserted) ==
    SeeLoop(b, to_square, attacking_color,
            get_least_valuable_piece_in_a_set(b.piece_type,
                attackers_and_defenders \cap b.color[attacking_color])[1],
            get_least_valuable_piece_in_a_set(b.piece_type,
                attackers_and_defenders \cap b.color[attacking_color])[2],
            occupied, attackers_and_defenders, gain,
            asserted /\ attackers_and_defenders \subseteq occupied)

\* A seeded fault: the loop ends as soon as the side of the last capture is
\* ahead, whatever the capture of its piece would give.
SeeLoopEager(b, to_square, attacking_color, attacking_piece, from_square_bb, occupied, attackers_and_defenders, gain, asserted) ==
    IF from_square_bb = EMPTY_SET
    THEN [gain |-> gain, asserted |-> asserted]
    ELSE IF 0 - gain[Len(gain)] < 0
    THEN [gain |-> Append(gain, VALUE[attacking_piece + 1] - gain[Len(gain)]),
          asserted |-> asserted]
    ELSE SeeNext(b, to_square, 1 - attacking_color,
                 Xor(occupied, from_square_bb),
                 IF from_square_bb \cap
                        (b.piece_type[PAWN] \cup b.piece_type[BISHOP]
                         \cup b.piece_type[ROOK] \cup b.piece_type[QUEEN]) # {}
                 THEN Xor(attackers_and_defenders, from_square_bb)
                      \cup consider_xrays(b.piece_type,
                               Xor(occupied, from_square_bb), to_square,
                               bitscan_1bit(from_square_bb))
                 ELSE Xor(attackers_and_defenders, from_square_bb),
                 Append(gain, VALUE[attacking_piece + 1] - gain[Len(gain)]),
                 asserted)

SeeLoop(b, to_square, attacking_color, attacking_piece, from_square_bb, occupied, attackers_and_defenders, gain, asserted) ==
    IF from_square_bb = EMPTY_SET
    THEN [gain |-> gain, asserted |-> asserted]
    ELSE IF Max(0 - gain[Len(gain)],
                VALUE[attacking_piece + 1] - gain[Len(gain)]) < 0
    THEN [gain |-> Append(gain, VALUE[attacking_piece + 1] - gain[Len(gain)]),
          asserted |-> asserted]
    ELSE SeeNext(b, to_square, 1 - attacking_color,
                 Xor(occupied, from_square_bb),
                 IF from_square_bb \cap
                        (b.piece_type[PAWN] \cup b.piece_type[BISHOP]
                         \cup b.piece_type[ROOK] \cup b.piece_type[QUEEN]) # {}
                 THEN Xor(attackers_and_defenders, from_square_bb)
                      \cup consider_xrays(b.piece_type,
                               Xor(occupied, from_square_bb), to_square,
                               bitscan_1bit(from_square_bb))
                 ELSE Xor(attackers_and_defenders, from_square_bb),
                 Append(gain, VALUE[attacking_piece + 1] - gain[Len(gain)]),
                 asserted)

\* the second loop of calc_see, on the list without the speculative entry
RECURSIVE Negamaxed(_)
Negamaxed(gain) ==
    IF Len(gain) = 1
    THEN gain[1]
    ELSE Negamaxed([SubSeq(gain, 1, Len(gain) - 1) EXCEPT ![Len(gain) - 1] =
                       0 - Max(0 - gain[Len(gain) - 1], gain[Len(gain)])])

Swapped(b, attacking_color, from_square, attacking_piece, to_square, target_piece) ==
    SeeLoop(b, to_square, attacking_color, attacking_piece, {from_square},
            b.occupied,
            attacks_to(b.piece_type, b.color, b.occupied, to_square, WHITE)
                \cup attacks_to(b.piece_type, b.color, b.occupied, to_square, BLACK),
            <<VALUE[target_piece + 1]>>, TRUE)

calc_see(b, attacking_color, from_square, attacking_piece, to_square, target_piece) ==
    Negamaxed(SubSeq(Swapped(b, attacking_color, from_square, attacking_piece,
                             to_square, target_piece).gain,
                     1,
                     Len(Swapped(b, attacking_color, from_square, attacking_piece,
                                 to_square, target_piece).gain) - 1))

\* MoveGenerator::calc_see (board/mod.rs): the same exchange for a move `m`
\* of the side `to_move`; `occupied` is not updated and the vacated squares
\* leave `attackers_and_defenders` only
PIECE_VALUES == <<10000, 975, 500, 325, 325, 100, 0>>

XrayAttackers(b, dest_square, orig_square_bb) ==
    LET candidates ==
            b.occupied \cap
                squares_behind_blocker[dest_square][bitscan_1bit(orig_square_bb)]
        bb == piece_attacks_from(candidates, ROOK, dest_square) \cap candidates
                  \cap (b.piece_type[QUEEN] \cup b.piece_type[ROOK])
    IN  IF bb # {}
        THEN bb
        ELSE piece_attacks_from(candidates, BISHOP, dest_square) \cap candidates
                 \cap (b.piece_type[QUEEN] \cup b.piece_type[BISHOP])

RECURSIVE Exchange(_, _, _, _, _, _, _)
ExchangeNext(b, dest_square, us, attackers_and_defenders, gain, speculative) ==
    IF get_least_valuable_piece_in_a_set(b.piece_type,
           attackers_and_defenders \cap b.color[us])[2] # {}
    THEN Exchange(b, dest_square, us,
             get_least_valuable_piece_in_a_set(b.piece_type,
                 attackers_and_defenders \cap b.color[us])[1],
             get_least_valuable_piece_in_a_set(b.piece_type,
                 attackers_and_defenders \cap b.color[us])[2],
             attackers_and_defenders, Append(gain, speculative))
    ELSE gain

Exchange(b, dest_square, us, piece, orig_square_bb, attackers_and_defenders, gain) ==
    IF Max(0 - gain[Len(gain)], PIECE_VALUES[piece + 1] - gain[Len(gain)]) < 0
    THEN gain
    ELSE ExchangeNext(b, dest_square, 1 - us,
             IF orig_square_bb \cap
                    (b.piece_type[PAWN] \cup b.piece_type[BISHOP]
                     \cup b.piece_type[ROOK] \cup b.piece_type[QUEEN]) # {}
             THEN (attackers_and_defenders \ orig_square_bb)
                  \cup XrayAttackers(b, dest_square, orig_square_bb)
             ELSE attackers_and_defenders \ orig_square_bb,
             gain, PIECE_VALUES[piece + 1] - gain[Len(gain)])

MoveGenerator_calc_see(b, to_move, m) ==
    Negamaxed(Exchange(b, m.dest_square, to_move, m.piece, {m.orig_square},
                  attacks_to(b.piece_type, b.color, b.occupied, m.dest_square, WHITE)
                      \cup attacks_to(b.piece_type, b.color, b.occupied,
                                      m.dest_square, BLACK),
                  <<IF m.move_type = MOVE_PROMOTION
                    THEN PIECE_VALUES[m.captured_piece + 1] + 1
                    ELSE PIECE_VALUES[m.captured_piece + 1]>>))

(***************************************************************************)
(* The rules of chess, which the generator is checked against: what a     *)
(* piece attacks, what a move does to the board, which moves are legal.   *)
(* Position (not in src/) computes the checkers and the pinned pieces     *)
(* that it gives to the generator; they are computed here from the rules. *)
(***************************************************************************)
PieceOn(b, s) ==
    IF s \in b.occupied
    THEN CHOOSE p \in KING..PAWN : s \in b.piece_type[p]
    ELSE NO_PIECE

Between(a, b) == squares_between_including[a][b] \ {a, b}

Reaches(occupied, piece, from, to) ==
    CASE piece = KING -> Dist(from, to) = 1
      [] piece = KNIGHT -> {FileDist(from, to), RankDist(from, to)} = {1, 2}
      [] piece = ROOK -> Straight(from, to) /\ Between(from, to) \cap occupied = {}
      [] piece = BISHOP -> Diagonal(from, to) /\ Between(from, to) \cap occupied = {}
      [] piece = QUEEN -> Aligned(from, to) /\ Between(from, to) \cap occupied = {}

Forward(us) == IF us = WHITE THEN 1 ELSE 0 - 1

PawnHits(us, from, to) ==
    FileDist(from, to) = 1 /\ Rank(to) - Rank(from) = Forward(us)

Attackers(b, by, square) ==
    {s \in b.color[by] :
        IF s \in b.piece_type[PAWN]
        THEN PawnHits(by, s, square)
        ELSE Reaches(b.occupied, PieceOn(b, s), s, square)}

KingOf(b, us) == CHOOSE s \in b.piece_type[KING] : s \in b.color[us]

Checkers(b, us) == Attackers(b, 1 - us, KingOf(b, us))

Pinned(b, us) ==
    {s \in b.color[us] \ {KingOf(b, us)} :
        \E x \in b.color[1 - us] :
            /\ \/ x \in b.piece_type[QUEEN] /\ Aligned(KingOf(b, us), x)
               \/ x \in b.piece_type[ROOK] /\ Straight(KingOf(b, us), x)
               \/ x \in b.piece_type[BISHOP] /\ Diagonal(KingOf(b, us), x)
            /\ Between(KingOf(b, us), x) \cap b.occupied = {s}}

Remove(b, s) ==
    [piece_type |-> [p \in KING..PAWN |-> b.piece_type[p] \ {s}],
     color |-> [c \in WHITE..BLACK |-> b.color[c] \ {s}],
     occupied |-> b.occupied \ {s}]

Put(b, s, piece, us) ==
    [piece_type |-> [p \in KING..PAWN |->
                        IF p = piece THEN b.piece_type[p] \cup {s}
                        ELSE b.piece_type[p] \ {s}],
     color |-> [c \in WHITE..BLACK |->
                   IF c = us THEN b.color[c] \cup {s} ELSE b.color[c] \ {s}],
     occupied |-> b.occupied \cup {s}]

PromotedPiece(aux_data) == <<QUEEN, ROOK, BISHOP, KNIGHT>>[aux_data + 1]

\* the board after the move m = [move_type, orig_square, dest_square, aux_data]
Play(b, us, m) ==
    CASE m.move_type = MOVE_NORMAL ->
             Put(Remove(b, m.orig_square), m.dest_square,
                 PieceOn(b, m.orig_square), us)
      [] m.move_type = MOVE_ENPASSANT ->
             Put(Remove(Remove(b, m.orig_square),
                        m.dest_square - 8 * Forward(us)),
                 m.dest_square, PAWN, us)
      [] m.move_type = MOVE_PROMOTION ->
             Put(Remove(b, m.orig_square), m.dest_square,
                 PromotedPiece(m.aux_data), us)
      [] m.move_type = MOVE_CASTLING ->
             Put(Put(Remove(Remove(b, m.orig_square),
                            Sq(IF m.aux_data = 0 THEN 0 ELSE 7, 7 * us)),
                     m.dest_square, KING, us),
                 Sq(IF m.aux_data = 0 THEN 3 ELSE 5, 7 * us), ROOK, us)

Digest(move_type, orig_square, dest_square, aux_data) ==
    [move_type |-> move_type, orig_square |-> orig_square,
     dest_square |-> dest_square, aux_data |-> aux_data]

DigestOf(m) == Digest(m.move_type, m.orig_square, m.dest_square, m.aux_data)

\* the moves of the rules, the king left in check or not
RuleMoves(p) ==
    LET b == p.b
        us == p.us
        ours == b.color[us]
        theirs == b.color[1 - us]
        last == IF us = WHITE THEN BB_RANK_8 ELSE BB_RANK_1
        pawn(s, d) ==
            IF d \in last
            THEN {Digest(MOVE_PROMOTION, s, d, a) : a \in 0..3}
            ELSE {Digest(MOVE_NORMAL, s, d, 0)}
    IN  {Digest(MOVE_NORMAL, x[1], x[2], 0) :
            x \in {y \in (ours \ b.piece_type[PAWN]) \X (Squares \ ours) :
                      Reaches(b.occupied, PieceOn(b, y[1]), y[1], y[2])}}
        \cup UNION {pawn(x[1], x[2]) :
            x \in {y \in (ours \cap b.piece_type[PAWN]) \X (Squares \ b.occupied) :
                      \/ y[2] = y[1] + 8 * Forward(us)
                      \/ /\ y[2] = y[1] + 16 * Forward(us)
                         /\ Rank(y[1]) = (IF us = WHITE THEN 1 ELSE 6)
                         /\ y[1] + 8 * Forward(us) \notin b.occupied}}
        \cup UNION {pawn(x[1], x[2]) :
            x \in {y \in (ours \cap b.piece_type[PAWN]) \X theirs :
                      PawnHits(us, y[1], y[2])}}
        \cup {Digest(MOVE_ENPASSANT, x[1], x[2], 0) :
            x \in {y \in (ours \cap b.piece_type[PAWN]) \X p.en_passant_bb :
                      PawnHits(us, y[1], y[2])}}
        \cup {Digest(MOVE_CASTLING, Sq(4, 7 * us),
                     Sq(IF side = 0 THEN 2 ELSE 6, 7 * us), side) :
            side \in {sd \in 0..1 :
                /\ <<us, sd>> \in p.castling
                /\ Between(Sq(4, 7 * us), Sq(IF sd = 0 THEN 0 ELSE 7, 7 * us))
                       \cap b.occupied = {}
                /\ \A s \in {Sq(4, 7 * us), Sq(IF sd = 0 THEN 3 ELSE 5, 7 * us)} :
                       Attackers(b, 1 - us, s) = {}}}

Safe(b, us) == Attackers(b, 1 - us, KingOf(b, us)) = {}

Legal(p, m) == m \in RuleMoves(p) /\ Safe(Play(p.b, p.us, m), p.us)

LegalMovesOf(p) == {m \in RuleMoves(p) : Safe(Play(p.b, p.us, m), p.us)}

(***************************************************************************)
(* The positions: a scene with up to MaxExtra pieces more, each with the  *)
(* en-passant squares and the castling rights that the board allows, for  *)
(* White to move and, mirrored, for Black to move.                         *)
(***************************************************************************)
SqAt(f, r) == Sq(f - 1, r - 1)      \* SqAt(5, 1) is E1

\* the position of tests::test_static_exchange_evaluation
TestPieces ==
    {<<KING, BLACK, SqAt(1, 3)>>, <<QUEEN, BLACK, SqAt(5, 5)>>,
     <<ROOK, BLACK, SqAt(6, 8)>>, <<BISHOP, BLACK, SqAt(4, 2)>>,
     <<PAWN, BLACK, SqAt(7, 5)>>, <<KING, WHITE, SqAt(1, 1)>>,
     <<PAWN, WHITE, SqAt(1, 2)>>, <<PAWN, WHITE, SqAt(5, 3)>>,
     <<PAWN, WHITE, SqAt(7, 3)>>, <<PAWN, WHITE, SqAt(4, 4)>>,
     <<BISHOP, WHITE, SqAt(8, 2)>>, <<ROOK, WHITE, SqAt(6, 1)>>,
     <<ROOK, WHITE, SqAt(6, 2)>>}

Scenes ==
    { \* castling
      {<<KING, WHITE, SqAt(5, 1)>>, <<ROOK, WHITE, SqAt(1, 1)>>,
       <<ROOK, WHITE, SqAt(8, 1)>>, <<KING, BLACK, SqAt(7, 8)>>},
      \* en passant, the king on the rank of the two pawns
      {<<KING, WHITE, SqAt(1, 5)>>, <<PAWN, WHITE, SqAt(5, 5)>>,
       <<PAWN, BLACK, SqAt(4, 5)>>, <<KING, BLACK, SqAt(7, 8)>>},
      \* en passant and promotion, the king on the first rank
      {<<KING, WHITE, SqAt(5, 1)>>, <<PAWN, WHITE, SqAt(5, 5)>>,
       <<PAWN, BLACK, SqAt(4, 5)>>, <<PAWN, WHITE, SqAt(2, 7)>>,
       <<KING, BLACK, SqAt(7, 8)>>},
      \* en passant, the passed pawn giving check
      {<<KING, WHITE, SqAt(5, 4)>>, <<PAWN, WHITE, SqAt(5, 5)>>,
       <<PAWN, BLACK, SqAt(4, 5)>>, <<KING, BLACK, SqAt(7, 8)>>},
      \* exchanges
      TestPieces }

Pool ==
    {<<QUEEN, BLACK, SqAt(5, 3)>>, <<KNIGHT, BLACK, SqAt(6, 3)>>,
     <<BISHOP, BLACK, SqAt(2, 4)>>, <<ROOK, BLACK, SqAt(8, 5)>>,
     <<KNIGHT, BLACK, SqAt(2, 3)>>, <<ROOK, BLACK, SqAt(3, 8)>>,
     <<PAWN, BLACK, SqAt(4, 2)>>, <<BISHOP, BLACK, SqAt(1, 8)>>,
     <<KNIGHT, WHITE, SqAt(4, 2)>>, <<BISHOP, WHITE, SqAt(5, 2)>>,
     <<PAWN, WHITE, SqAt(3, 5)>>, <<QUEEN, WHITE, SqAt(4, 1)>>,
     <<PAWN, WHITE, SqAt(7, 2)>>, <<ROOK, WHITE, SqAt(3, 3)>>}

Place(pieces) ==
    BoardNew([p \in KING..PAWN |-> {x[3] : x \in {y \in pieces : y[1] = p}}],
             [c \in WHITE..BLACK |-> {x[3] : x \in {y \in pieces : y[2] = c}}])

PieceSets ==
    {scene \cup extra : scene \in Scenes,
                        extra \in {e \in SUBSET Pool : Cardinality(e) <= MaxExtra}}

TestBoard == Place(TestPieces)

Boards ==
    {Place(ps) : ps \in {q \in PieceSets :
                            \A x, y \in q : x[3] = y[3] => x = y}}

\* the squares a black pawn may just have passed, by the board alone
PassedSquares(b) ==
    {e \in BB_RANK(5) \ b.occupied :
        /\ e - 8 \in b.piece_type[PAWN] \cap b.color[BLACK]
        /\ e + 8 \notin b.occupied}

RightsOf(b) ==
    {x \in (WHITE..BLACK) \X (0..1) :
        /\ Sq(4, 7 * x[1]) \in b.piece_type[KING] \cap b.color[x[1]]
        /\ Sq(IF x[2] = 0 THEN 0 ELSE 7, 7 * x[1])
               \in b.piece_type[ROOK] \cap b.color[x[1]]}

PositionOf(b, us, en_passant_bb, castling) ==
    [b |-> b, us |-> us, king_square |-> KingOf(b, us),
     checkers |-> Checkers(b, us), pinned |-> Pinned(b, us),
     en_passant_bb |-> en_passant_bb, castling |-> castling]

MirrorSq(s) == Sq(File(s), 7 - Rank(s))
MirrorBb(bb) == {MirrorSq(s) : s \in bb}
Mirror(p) ==
    PositionOf(BoardNew([q \in KING..PAWN |-> MirrorBb(p.b.piece_type[q])],
                        [c \in WHITE..BLACK |-> MirrorBb(p.b.color[1 - c])]),
               1 - p.us, MirrorBb(p.en_passant_bb),
               {<<1 - x[1], x[2]>> : x \in p.castling})

WhitePositions ==
    {PositionOf(x[1], WHITE, x[2], x[3]) :
        x \in {y \in Boards \X ({{}} \cup {{e} : e \in BB_RANK(5)})
                            \X (SUBSET ((WHITE..BLACK) \X (0..1))) :
                  /\ Safe(y[1], BLACK)
                  /\ y[2] \subseteq PassedSquares(y[1])
                  /\ y[3] \in {{}, RightsOf(y[1])}}}

Positions == WhitePositions \cup {Mirror(p) : p \in WhitePositions}

NoMove == BoardMove(MOVE_NORMAL, 0, 0, 0, NO_PIECE, NO_PIECE)

BdCalled(p, op, moves, m, see) ==
    [p |-> p, op |-> op, moves |-> moves, m |-> m, see |-> see]

NoSee == [value |-> 0, asserted |-> TRUE, of_move |-> 0]

BdInits(m) ==
    IF m = "board"
    THEN {BdCalled(p, "new", {}, NoMove, NoSee) : p \in Positions}
    ELSE {BdCalled(PositionOf(Place(CHOOSE s \in Scenes : TRUE), WHITE, {}, {}),
                   "new", {}, NoMove, NoSee)}

\* Board::generate_pseudolegal_moves on the position
BdGenerate ==
    /\ mode = "board"
    /\ bd.op = "new"
    /\ bd' = BdCalled(bd.p, "generate_pseudolegal_moves",
                 generate_pseudolegal_moves(bd.p.b, bd.p.us, bd.p.king_square,
                     bd.p.checkers, bd.p.pinned, bd.p.en_passant_bb,
                     bd.p.castling),
                 NoMove, NoSee)
    /\ UNCHANGED <<svars, tvars, hr, se, mst, cm, srv>>

\* Board::calc_see and MoveGenerator::calc_see for a generated capture
BdCalcSee ==
    /\ mode = "board"
    /\ bd.op = "generate_pseudolegal_moves"
    /\ \E m \in bd.moves :
          /\ m.move_type = MOVE_NORMAL
          /\ m.captured_piece # NO_PIECE
          /\ bd' = BdCalled(bd.p, "calc_see", bd.moves, m,
                      [value |-> calc_see(bd.p.b, bd.p.us, m.orig_square,
                                          m.piece, m.dest_square, m.captured_piece),
                       asserted |-> Swapped(bd.p.b, bd.p.us, m.orig_square,
                                        m.piece, m.dest_square,
                                        m.captured_piece).asserted,
                       of_move |-> MoveGenerator_calc_see(bd.p.b, bd.p.us, m)])
    /\ UNCHANGED <<svars, tvars, hr, se, mst, cm, srv>>


(***************************************************************************)
(* Move (chess_move.rs): the packed move, its constructor and accessors.  *)
(* A Move is the record of its score (bits 32-63) and of its low 32 bits. *)
(***************************************************************************)
MaxMoveType == 5

RECURSIVE BitOr(_, _)
BitOr(a, b) ==
    IF a = 0 THEN b
    ELSE IF b = 0 THEN a
    ELSE (IF a % 2 = 1 \/ b % 2 = 1 THEN 1 ELSE 0)
         + 2 * BitOr(a \div 2, b \div 2)

RECURSIVE BitAnd(_, _)
BitAnd(a, b) ==
    IF a = 0 \/ b = 0 THEN 0
    ELSE (IF a % 2 = 1 /\ b % 2 = 1 THEN 1 ELSE 0)
         + 2 * BitAnd(a \div 2, b \div 2)

RECURSIVE Shl(_, _)
Shl(a, n) == IF n = 0 THEN a ELSE Shl(2 * a, n - 1)

RECURSIVE Shr(_, _)
Shr(a, n) == IF n = 0 THEN a ELSE Shr(a \div 2, n - 1)

\* !a, within the 30 bits that the fields of a move take
BitNot(a) == 1073741823 - a

\* Field shifts
M_SHIFT_CAPTURED_PIECE == 27
M_SHIFT_PIECE == 24
M_SHIFT_CASTLING_DATA == 20
M_SHIFT_ENPASSANT_FILE == 16
M_SHIFT_MOVE_TYPE == 14
M_SHIFT_ORIG_SQUARE == 8
M_SHIFT_DEST_SQUARE == 2
M_SHIFT_AUX_DATA == 0

\* Field masks
M_MASK_CAPTURED_PIECE == Shl(7, M_SHIFT_CAPTURED_PIECE)
M_MASK_PIECE == Shl(7, M_SHIFT_PIECE)
M_MASK_ENPASSANT_FILE == Shl(15, M_SHIFT_ENPASSANT_FILE)
M_MASK_MOVE_TYPE == Shl(3, M_SHIFT_MOVE_TYPE)
M_MASK_ORIG_SQUARE == Shl(63, M_SHIFT_ORIG_SQUARE)
M_MASK_DEST_SQUARE == Shl(63, M_SHIFT_DEST_SQUARE)
M_MASK_AUX_DATA == Shl(3, M_SHIFT_AUX_DATA)

\* the assertions of Move::new (0x11 is 17); castling is the value of a
\* CastlingRights, four bits
MoveNewAsserts(us, move_type, piece, orig_square, dest_square, captured_piece, en_passant_file, castling, promoted_piece_code) ==
    /\ us <= 1
    /\ move_type <= 17
    /\ piece < NO_PIECE
    /\ orig_square <= 63
    /\ dest_square <= 63
    /\ captured_piece # KING /\ captured_piece <= NO_PIECE
    /\ en_passant_file <= 15
    /\ promoted_piece_code <= 3

\* Move::new
Move_new(us, move_type, piece, orig_square, dest_square, captured_piece, en_passant_file, castling, promoted_piece_code) ==
    LET aux_data == IF move_type = MOVE_PROMOTION
                    THEN promoted_piece_code ELSE 0
    IN  [score |-> IF move_type = MOVE_PROMOTION
                   THEN (IF promoted_piece_code = 0
                         THEN MOVE_SCORE_MAX ELSE MOVE_SCORE_MAX - 1)
                   ELSE (IF captured_piece = NO_PIECE
                         THEN 0 ELSE MOVE_SCORE_MAX),
         bits |->
            BitOr(Shl(BitAnd(BitNot(captured_piece), 7),
                      M_SHIFT_CAPTURED_PIECE),
            BitOr(Shl(piece, M_SHIFT_PIECE),
            BitOr(Shl(castling, M_SHIFT_CASTLING_DATA),
            BitOr(Shl(en_passant_file, M_SHIFT_ENPASSANT_FILE),
            BitOr(Shl(move_type, M_SHIFT_MOVE_TYPE),
            BitOr(Shl(orig_square, M_SHIFT_ORIG_SQUARE),
            BitOr(Shl(dest_square, M_SHIFT_DEST_SQUARE),
                  Shl(aux_data, M_SHIFT_AUX_DATA))))))))]

\* the accessors
Move_move_type(m) == Shr(BitAnd(m.bits, M_MASK_MOVE_TYPE), M_SHIFT_MOVE_TYPE)
Move_piece(m) == Shr(BitAnd(m.bits, M_MASK_PIECE), M_SHIFT_PIECE)
Move_orig_square(m) ==
    Shr(BitAnd(m.bits, M_MASK_ORIG_SQUARE), M_SHIFT_ORIG_SQUARE)
Move_dest_square(m) ==
    Shr(BitAnd(m.bits, M_MASK_DEST_SQUARE), M_SHIFT_DEST_SQUARE)
Move_captured_piece(m) ==
    Shr(BitAnd(BitNot(m.bits), M_MASK_CAPTURED_PIECE), M_SHIFT_CAPTURED_PIECE)
Move_en_passant_file(m) ==
    Shr(BitAnd(m.bits, M_MASK_ENPASSANT_FILE), M_SHIFT_ENPASSANT_FILE)
\* CastlingRights::new keeps the four low bits of its argument
Move_castling(m) == Shr(m.bits, M_SHIFT_CASTLING_DATA) % 16
Move_aux_data(m) == Shr(BitAnd(m.bits, M_MASK_AUX_DATA), M_SHIFT_AUX_DATA)

\* the arguments that Move::new is called with
CmArgs ==
    [us : {WHITE, BLACK}, move_type : 0 .. MaxMoveType,
     piece : {KING, BISHOP, PAWN}, orig_square : {0, 12, 63},
     dest_square : {0, 28, 63}, captured_piece : {QUEEN, KNIGHT, NO_PIECE},
     en_passant_file : {0, 8, 15}, castling : {0, 11, 15},
     promoted_piece_code : {0, 1, 3}]

NoArgs == CHOOSE a \in CmArgs : TRUE

CmInits(m) ==
    IF m = "move"
    THEN {[op |-> "none", a |-> a, m |-> MoveInvalid] : a \in CmArgs}
    ELSE {[op |-> "none", a |-> NoArgs, m |-> MoveInvalid]}

\* Move::new(..), for arguments that pass its assertions
CmNew ==
    /\ mode = "move"
    /\ cm.op = "none"
    /\ MoveNewAsserts(cm.a.us, cm.a.move_type, cm.a.piece, cm.a.orig_square,
                      cm.a.dest_square, cm.a.captured_piece,
                      cm.a.en_passant_file, cm.a.castling,
                      cm.a.promoted_piece_code)
    /\ cm' = [cm EXCEPT
                 !.op = "new",
                 !.m = Move_new(cm.a.us, cm.a.move_type, cm.a.piece,
                                cm.a.orig_square, cm.a.dest_square,
                                cm.a.captured_piece, cm.a.en_passant_file,
                                cm.a.castling, cm.a.promoted_piece_code)]
    /\ UNCHANGED <<svars, tvars, hr, se, mst, bd, srv>>

(***************************************************************************)
(* uci.rs and main.rs: the UCI server.  A line of input is the sequence   *)
(* of its words; the regular expressions are modelled by what they accept *)
(* among the words of the vocabulary below.                               *)
(***************************************************************************)
MaxLines == 2
MaxReplies == 1

\* the command words of parse_uci_command
CommandWords ==
    {"setoption", "isready", "ucinewgame", "position", "go", "stop",
     "ponderhit", "quit"}
\* the words that match [a-h][1-8][a-h][1-8][qrbn]?
MoveWords == {"e2e4", "h1h2", "c7c8q"}
\* the words that value.parse::<usize>() accepts
NumberWords == {"0", "1", "32"}
\* the words that match the six fields of a FEN string
FenBoardWords == {"k7/8/8/8/8/8/8/7K"}
FenColorWords == {"w", "b"}
FenCastlingWords == {"-", "KQk"}
FenEnPassantWords == {"-", "e6"}
FenDigitWords == {"0", "1", "32"}

STARTPOS ==
    <<"rnbqkbnr/pppppppp/8/8/8/8/PPPPPPPP/RNBQKBNR", "w", "QKqk", "-", "0",
      "1">>

Rest(s, i) == SubSeq(s, i, Len(s))
IndexOf(s, set, from) ==
    IF \E i \in from .. Len(s) : s[i] \in set
    THEN CHOOSE i \in from .. Len(s) :
             s[i] \in set /\ \A j \in from .. (i - 1) : s[j] \notin set
    ELSE 0

\* a UciCommand, and Err(ParseError)
UciCommand(kind, a, b) == [kind |-> kind, a |-> a, b |-> b]
ParseError == UciCommand("ParseError", <<>>, <<>>)

\* parse_setoption_params: ^name\s+(\S.*?)(?:\s+value\s+(.*?))?\s*$
parse_setoption_params(s) ==
    IF Len(s) >= 2 /\ s[1] = "name"
    THEN IF IndexOf(s, {"value"}, 3) # 0
         THEN UciCommand("SetOption",
                         SubSeq(s, 2, IndexOf(s, {"value"}, 3) - 1),
                         Rest(s, IndexOf(s, {"value"}, 3) + 1))
         ELSE UciCommand("SetOption", Rest(s, 2), <<>>)
    ELSE ParseError

\* the list of moves of a position command: every word a move
MovesAccepted(moves) == \A i \in 1 .. Len(moves) : moves[i] \in MoveWords

\* (?:\s+moves(?P<moves>..))?\s*$ after the position
PositionTail(fen, tail) ==
    IF tail = <<>> THEN UciCommand("Position", fen, <<>>)
    ELSE IF tail[1] = "moves" /\ MovesAccepted(Rest(tail, 2))
    THEN UciCommand("Position", fen, Rest(tail, 2))
    ELSE ParseError

\* a parser that takes any words for the position and its moves
parse_any_position(s) == UciCommand("Position", STARTPOS, s)

\* parse_position_params
parse_position_params(s) ==
    IF Len(s) >= 1 /\ s[1] = "startpos"
    THEN PositionTail(STARTPOS, Rest(s, 2))
    ELSE IF /\ Len(s) >= 7
            /\ s[1] = "fen"
            /\ s[2] \in FenBoardWords
            /\ s[3] \in FenColorWords
            /\ s[4] \in FenCastlingWords
            /\ s[5] \in FenEnPassantWords
            /\ s[6] \in FenDigitWords
            /\ s[7] \in FenDigitWords
    THEN PositionTail(SubSeq(s, 2, 7), Rest(s, 8))
    ELSE ParseError

\* parse_go_params never gives an error; GoParams is kept as the words
parse_go_params(s) == UciCommand("Go", s, <<>>)

\* parse_uci_command: the first command word of the line and what follows
parse_uci_command(s) ==
    IF IndexOf(s, CommandWords, 1) = 0 THEN ParseError
    ELSE LET command_str == s[IndexOf(s, CommandWords, 1)]
             params_str == Rest(s, IndexOf(s, CommandWords, 1) + 1)
         IN  CASE command_str = "stop" -> UciCommand("Stop", <<>>, <<>>)
               [] command_str = "quit" -> UciCommand("Quit", <<>>, <<>>)
               [] command_str = "isready" -> UciCommand("IsReady", <<>>, <<>>)
               [] command_str = "ponderhit" ->
                      UciCommand("PonderHit", <<>>, <<>>)
               [] command_str = "ucinewgame" ->
                      UciCommand("UciNewGame", <<>>, <<>>)
               [] command_str = "setoption" ->
                      parse_setoption_params(params_str)
               [] command_str = "position" ->
                      parse_position_params(params_str)
               [] command_str = "go" -> parse_go_params(params_str)

\* the lines that the GUI sends
Lines ==
    {<<"isready">>, <<"foo", "quit">>, <<"quit">>, <<"stop">>,
     <<"ucinewgame">>, <<"foo">>,
     <<"position", "startpos", "moves", "e2e4">>,
     <<"position", "startpos", "moves", "e2e4", "aabb">>,
     <<"position", "fen", "k7/8/8/8/8/8/8/7K", "w", "-", "-", "0", "1",
       "moves", "h1h2", "aabb">>,
     <<"setoption", "name", "Hash", "value", "32">>,
     <<"setoption", "name", "Hash", "value", "abc">>,
     <<"setoption", "name", "Ponder", "value", "true">>,
     <<"setoption", "name">>,
     <<"go", "infinite">>}
\* the first line
FirstLines == {<<"uci">>, <<"foo", "uci">>, <<"isready">>, <<>>}
\* what read_line gives: a line, or Ok(0) at the end of input, or Err
Eof == <<"<EOF>">>
IoError == <<"<ERR>">>

\* an engine call: the method and its arguments
Call(method, a, b) == [method |-> method, a |-> a, b |-> b]

\* value.parse::<usize>().ok(), as the list of no word or one
ParsedSize(value) ==
    IF Len(value) = 1 /\ value[1] \in NumberWords THEN value ELSE <<>>

\* a server that takes no option for Hash
IsNeverHash(name) == FALSE
\* name == "Hash"
IsHash(name) == name = <<"Hash">>

\* the result of read_thread.join().unwrap()
Joined(reader) == IF reader = "quit" THEN "Ok" ELSE "Err"

SrvInits(m) ==
    {[pc |-> "start", code |-> 0 - 1, first |-> <<>>, wrote |-> TRUE,
      reader |-> "none", nread |-> 0, last |-> <<>>, sent |-> <<>>,
      chan |-> <<>>, done |-> <<>>, engine |-> FALSE, calls |-> <<>>,
      out |-> <<>>, nreplies |-> 0, werr |-> FALSE]}

\* a handshake that takes any first line
handshake_accepted(line, written) == "Ok"

\* Server::wait_for_hanshake: "Ok", or "Err" at the end of input, on an IO
\* error, without the word uci in the first line, or when a write fails
wait_for_hanshake(line, written) ==
    IF line = Eof \/ line = IoError THEN "Err"
    ELSE IF ~(\E i \in 1 .. Len(line) : line[i] = "uci") THEN "Err"
    ELSE IF ~written THEN "Err"
    ELSE "Ok"

\* main, up to the call of serve: exit(2) when the handshake fails.  serve
\* spawns the reading thread.
SrvMain ==
    /\ mode = "uci"
    /\ srv.pc = "start"
    /\ \E line \in FirstLines \cup {Eof, IoError}, written \in BOOLEAN :
           srv' = IF wait_for_hanshake(line, written) = "Ok"
                  THEN [srv EXCEPT !.pc = "read_commands", !.first = line,
                                   !.wrote = written, !.reader = "run",
                                   !.out = <<"uciok">>]
                  ELSE [srv EXCEPT !.pc = "exited", !.first = line,
                                   !.wrote = written, !.code = 2]
    /\ UNCHANGED <<svars, tvars, hr, se, mst, bd, cm>>

\* one turn of the loop of the reading thread
SrvReadLine ==
    /\ mode = "uci"
    /\ srv.code = 0 - 1
    /\ srv.reader = "run"
    /\ \E line \in Lines \cup {Eof, IoError} :
           /\ srv.nread < MaxLines
                  \/ line \in {Eof, IoError, <<"quit">>}
           /\ srv' =
                 IF line = Eof THEN [srv EXCEPT !.reader = "eof"]
                 ELSE IF line = IoError THEN [srv EXCEPT !.reader = "ioerr"]
                 ELSE IF parse_uci_command(line).kind = "ParseError"
                 THEN [srv EXCEPT !.nread = @ + 1, !.last = line]
                 ELSE IF parse_uci_command(line).kind = "Quit"
                 THEN [srv EXCEPT !.nread = @ + 1, !.last = line,
                                  !.reader = "quit"]
                 ELSE [srv EXCEPT
                          !.nread = @ + 1, !.last = line,
                          !.sent = Append(@, parse_uci_command(line)),
                          !.chan = Append(@, parse_uci_command(line))]
    /\ UNCHANGED <<svars, tvars, hr, se, mst, bd, cm>>

\* "Pass the received command to the engine": the calls made for cmd
Passed(cmd) ==
    CASE cmd.kind = "IsReady" -> <<>>
      [] cmd.kind = "SetOption" -> <<Call("set_option", cmd.a, cmd.b)>>
      [] cmd.kind = "Position" -> <<Call("position", cmd.a, cmd.b)>>
      [] cmd.kind = "Stop" -> <<Call("stop", <<>>, <<>>)>>
      [] cmd.kind = "UciNewGame" -> <<Call("new_game", <<>>, <<>>)>>
      [] cmd.kind = "PonderHit" -> <<Call("ponder_hit", <<>>, <<>>)>>
      [] cmd.kind = "Go" -> <<Call("go", cmd.a, <<>>)>>

\* the body of 'read_commands for a command that the engine gets
Dispatched(s, cmd, written) ==
    IF cmd.kind = "IsReady"
    THEN IF written
         THEN [s EXCEPT !.out = Append(@, "readyok")]
         ELSE [s EXCEPT !.pc = "exited", !.code = 1, !.werr = TRUE]
    ELSE [s EXCEPT !.calls = @ \o Passed(cmd),
                   !.pc = IF cmd.kind = "Stop" THEN "replies" ELSE @]

\* one turn of 'read_commands with a command in the channel
SrvCommand ==
    /\ mode = "uci"
    /\ srv.pc = "read_commands"
    /\ srv.chan # <<>>
    /\ \E written \in BOOLEAN :
           LET cmd == Head(srv.chan)
               got == [srv EXCEPT !.chan = Tail(@), !.done = Append(@, cmd)]
           IN  srv' =
                 IF srv.engine THEN Dispatched(got, cmd, written)
                 ELSE IF cmd.kind = "SetOption" /\ IsHash(cmd.a)
                 THEN [got EXCEPT
                          !.engine = TRUE,
                          !.calls = Append(@, Call("create",
                                                   ParsedSize(cmd.b), <<>>))]
                 ELSE Dispatched(
                          [got EXCEPT
                              !.engine = TRUE,
                              !.calls = Append(@, Call("create", <<>>, <<>>))],
                          cmd, written)
    /\ UNCHANGED <<svars, tvars, hr, se, mst, bd, cm>>

\* try_recv gives Empty: the channel is empty and the reading thread runs
SrvEmpty ==
    /\ mode = "uci"
    /\ srv.pc = "read_commands"
    /\ srv.chan = <<>>
    /\ srv.reader = "run"
    /\ srv' = [srv EXCEPT !.pc = "replies"]
    /\ UNCHANGED <<svars, tvars, hr, se, mst, bd, cm>>

\* "Fetch engine replies to stdout": the replies that wait_for_reply gives
\* are written, then the writer is flushed; without an engine, sleep
SrvReplies ==
    /\ mode = "uci"
    /\ srv.pc = "replies"
    /\ \E reply \in {"", "bestmove", "info"}, written \in BOOLEAN :
           /\ reply # "" => srv.engine /\ srv.nreplies < MaxReplies
           /\ ~written => srv.engine
           /\ srv' =
                 IF ~written
                 THEN [srv EXCEPT !.pc = "exited", !.code = 1,
                                  !.werr = TRUE]
                 ELSE IF reply = ""
                 THEN [srv EXCEPT !.pc = "read_commands"]
                 ELSE [srv EXCEPT !.pc = "read_commands",
                                  !.out = Append(@, reply),
                                  !.nreplies = @ + 1]
    /\ UNCHANGED <<svars, tvars, hr, se, mst, bd, cm>>

\* try_recv gives Disconnected: the channel is empty and the reading thread
\* has ended.  The session ends: engine.exit(), the result of the reading
\* thread is the result of serve, and main exits with 0 or 1.
SrvDisconnected ==
    /\ mode = "uci"
    /\ srv.pc = "read_commands"
    /\ srv.chan = <<>>
    /\ srv.reader \in {"quit", "eof", "ioerr"}
    /\ srv' = [srv EXCEPT
                  !.pc = "exited",
                  !.calls = IF srv.engine
                            THEN Append(@, Call("exit", <<>>, <<>>)) ELSE @,
                  !.code = IF Joined(srv.reader) = "Ok" THEN 0 ELSE 1]
    /\ UNCHANGED <<svars, tvars, hr, se, mst, bd, cm>>


\* `any` says which inner searcher works behind the channel: any searcher
\* that answers like alpha-beta, or the engine's Search::run.
Truths(m) ==
    IF m \in {"deep", "mod"}
    THEN {[root |-> V, child |-> <<>>, final |-> 0, any |-> FALSE] : V \in DeepValues}
    ELSE IF m = "asp"
    THEN {[root |-> V, child |-> <<>>, final |-> 0, any |-> TRUE] : V \in RootValues}
    ELSE IF m # "mpv"
    THEN {[root |-> 0, child |-> <<>>, final |-> 0, any |-> FALSE]}
    ELSE {[root |-> 0, child |-> cv, final |-> f, any |-> FALSE] :
             cv \in [Moves -> MoveValues], f \in FinalValues}

InitIn(modes) ==
    /\ IF modes = {"par"}
       THEN tt = ParTable /\ th = ParInit
       ELSE IF modes = {"gen"}
       THEN tt \in GenTables /\ th = GenInit(tt)
       ELSE tt = StdHashTableNew /\ th = ThInit
    /\ mode \in modes
    /\ env = EnvInit
    /\ truth \in Truths(mode)
    /\ out = Err
    /\ ex = ExInit
    /\ ds = DeepInit
    /\ asp = AspNew(FALSE)
    /\ ms = MpvNew
    /\ lg = LegacyInit
    /\ hr = HrInit
    /\ se \in SeInits(mode)
    /\ mst = MstInit
    /\ bd \in BdInits(mode)
    /\ cm \in CmInits(mode)
    /\ srv \in SrvInits(mode)

Worker == WorkerProgress \/ WorkerFinish \/ WorkerTerminated

DeepNext ==
    \/ DeepStart \/ DeepRecv \/ DeepTerminate
    \/ ModDeepStart \/ ModDeepRecv \/ ModDeepTerminate
    \/ Worker

AspNext == AspStart \/ AspRecv \/ AspTerminate \/ Worker

MpvNext == MpvStart \/ MpvRecv \/ MpvTerminate \/ Worker

SearchNext ==
    \/ DeepStart \/ DeepRecv \/ DeepTerminate
    \/ ModDeepStart \/ ModDeepRecv \/ ModDeepTerminate
    \/ AspStart \/ AspRecv \/ AspTerminate
    \/ MpvStart \/ MpvRecv \/ MpvTerminate
    \/ Worker

\* DeepeningSearcher, of deepening.rs and of search/mod.rs
DeepSpec == InitIn({"deep", "mod"}) /\ [][DeepNext]_vars

\* AspirationSearcher: the worker finishes every search, the caller goes on
\* polling.
AspSpec ==
    /\ InitIn({"asp"})
    /\ [][AspNext]_vars
    /\ WF_vars(WorkerFinish)
    /\ WF_vars(AspRecv)

\* MultipvSearcher
MpvSpec == InitIn({"mpv"}) /\ [][MpvNext]_vars

\* One thread calling the table
TtNext == TtStore \/ TtProbe \/ TtNewSearch \/ TtClear

TtSpec == InitIn({"tt"}) /\ [][TtNext]_vars

\* One thread calling the table with a key that has the bits of its data
ZeroKeySpec == InitIn({"zero"}) /\ [][TtNext]_vars

\* Threads sharing the table
ParNext ==
    \/ ParProbeCall \/ ParProbeReadKey \/ ParProbeReadData
    \/ ParSetGenerationData \/ ParSetGenerationKey \/ ParProbeReturn
    \/ ParStoreCall \/ ParStoreWriteKey \/ ParStoreWriteData

ParSpec == InitIn({"par"}) /\ [][ParNext]_vars

\* All the searchers
SearchSpec == InitIn({"deep", "mod", "asp", "mpv"}) /\ [][SearchNext]_vars

\* The worker thread announcing reports
Announce == HrSend \/ HrSet \/ HrNotify

\* AlphabetaSearcher and its worker
AbNext == AbLock \/ AbTryRecv \/ AbClear \/ WaitReport \/ WaitWake \/ Announce

AlphabetaSpec == InitIn({"ab"}) /\ [][AbNext]_vars

\* SimpleSearcher and its worker
SimNext == SimTryRecv \/ SimClear \/ WaitReport \/ WaitWake \/ Announce

SimpleSpec == InitIn({"simple"}) /\ [][SimNext]_vars

\* A caller of a MoveStack
MstNext ==
    \/ MstSave \/ MstRestore \/ MstPush \/ MstPop
    \/ MstRemoveMove \/ MstRemoveBestMove

MoveStackSpec == InitIn({"mst"}) /\ [][MstNext]_vars

\* The calls of do_move at one node
NodeNext == NodeDoMove \/ NodeUndoMove

NodeSpec == InitIn({"node"}) /\ [][NodeNext]_vars

\* The calls of run and reset
RunNext == SeRun \/ SeReset

RunSpec == InitIn({"run"}) /\ [][RunNext]_vars

BoardNext == BdGenerate \/ BdCalcSee
BoardSpec == InitIn({"board"}) /\ [][BoardNext]_vars

MoveNext == CmNew
MoveSpec == InitIn({"move"}) /\ [][MoveNext]_vars

UciNext ==
    \/ SrvMain
    \/ SrvReadLine
    \/ SrvCommand
    \/ SrvEmpty
    \/ SrvReplies
    \/ SrvDisconnected
UciSpec == InitIn({"uci"}) /\ [][UciNext]_vars

\* new_search, called again and again on one table
GenNext == TtGenNewSearch

GenSpec == InitIn({"gen"}) /\ [][GenNext]_vars

(***************************************************************************)
(* DeepeningSearcher: the order of the inner searches.                     *)
(***************************************************************************)
\* The DeepeningSearcher the caller drives.
Deepening == IF mode = "mod" THEN lg.deep ELSE ds

\* C1: after start_search with requested depth N, DeepeningSearcher starts
\* the inner searches at depths 1, 2, ..., N in this order, each one only
\* after the previous one reported done (no inner search is started while
\* the worker is busy or a report of the previous one is unread), never one
\* deeper than N; and a report with done = true of a search that was not
\* terminated is the one that completes depth N.
C1_DepthsInOrder ==
    mode \in {"deep", "mod"} =>
        LET requested == Deepening.params.depth
            log == Deepening.log
        IN /\ \A i \in 1..Len(log) : log[i] = i
           /\ Len(log) <= requested
           /\ ~ex.overlap
           /\ (out.ok /\ out.done /\ ~Deepening.search_is_terminated)
                  => (out.depth = requested /\ Len(log) = requested)

\* The DeepeningSearcher of search/mod.rs was asked for depth 0 and has
\* finished a search of depth 1.
C1_DepthZeroSearched ==
    /\ mode = "mod"
    /\ lg.deep.params.depth = 0
    /\ lg.deep.log = <<1>>
    /\ out.ok /\ out.done /\ out.depth = 1
    /\ ~lg.deep.search_is_terminated

(***************************************************************************)
(* terminate_search.                                                       *)
(***************************************************************************)
\* The searcher the caller drives, said by its mode m: d, a, s and g are the
\* values of ds, asp, ms and lg.
Terminated(m, d, a, s, g) ==
    CASE m = "deep" -> d.search_is_terminated
      [] m = "asp" -> a.search_is_terminated
      [] m = "mpv" -> s.search_is_terminated /\ s.searcher.search_is_terminated
      [] m = "mod" -> g.deep.search_is_terminated /\ g.asp.search_is_terminated

\* What the searcher has completed so far.
Completed(m, d, a, s, g) ==
    CASE m = "deep" -> <<d.depth>>
      [] m = "asp" -> <<a.alpha, a.beta, a.delta, a.last>>
      [] m = "mpv" -> <<s.current_move_index, s.values, s.ttw,
                        s.searcher.alpha, s.searcher.beta, s.searcher.last>>
      [] m = "mod" -> <<g.deep.depth, g.asp.alpha, g.asp.beta, g.asp.delta>>

CompletedValue(m, d, a, s, g) ==
    CASE m = "deep" -> d.value
      [] m = "asp" -> VALUE_UNKNOWN
      [] m = "mpv" -> s.values
      [] m = "mod" -> <<g.deep.value, g.asp.value>>

\* The depth and the value a terminated searcher puts into its reports.
ReportedDepth(m, d, g) ==
    CASE m = "deep" -> d.depth
      [] m = "mod" -> g.deep.depth - 1
      [] OTHER -> 0

ReportedValue(m, d) == IF m = "deep" THEN d.value ELSE VALUE_UNKNOWN

\* A step of try_recv_report that takes a report from the channel.
Receives == Len(ex'.chan) < Len(ex.chan)

\* While the search stays terminated: no inner search is started, the depth
\* completed so far stays, every inner report is forwarded (the nodes added,
\* the depth the one completed before), done as the inner report says.
StaysTerminated ==
    /\ ex'.nstarts = ex.nstarts
    /\ Completed(mode, ds', asp', ms', lg') = Completed(mode, ds, asp, ms, lg)
    /\ Receives =>
          /\ out'.ok
          /\ out'.done = Head(ex.chan).done
          /\ out'.nodes >= Head(ex.chan).nodes
          /\ out'.depth = ReportedDepth(mode, ds, lg)

\* C2: after terminate_search on DeepeningSearcher, AspirationSearcher or
\* MultipvSearcher the searcher starts no further inner search, goes on
\* forwarding the inner reports and forwards the inner report with
\* done = true as done = true, without advancing its completed depth; the
\* searchers of deepening.rs do not advance their value either and report
\* the value completed before, while those of search/mod.rs take the value
\* of any report that carries one.
C2_Terminated ==
    [][(/\ Terminated(mode, ds, asp, ms, lg)
        /\ Terminated(mode, ds', asp', ms', lg'))
         => /\ StaysTerminated
            /\ mode # "mod" =>
                 /\ CompletedValue(mode, ds', asp', ms', lg') =
                        CompletedValue(mode, ds, asp, ms, lg)
                 /\ Receives => out'.value = ReportedValue(mode, ds)
            /\ (mode = "mod" /\ Receives) =>
                 /\ lg'.deep.value = out'.value
                 /\ out'.value = (IF Head(ex.chan).value # VALUE_UNKNOWN
                                  THEN Head(ex.chan).value ELSE lg.deep.value)]_vars

\* C2 as stated: no terminated searcher advances its value.
C2_ValueKept ==
    [][(/\ Terminated(mode, ds, asp, ms, lg)
        /\ Terminated(mode, ds', asp', ms', lg'))
         => /\ StaysTerminated
            /\ CompletedValue(mode, ds', asp', ms', lg') =
                   CompletedValue(mode, ds, asp, ms, lg)]_vars

\* A terminated DeepeningSearcher (deepening.rs) has forwarded the done
\* report of a search that went on to its end, of a depth less than the
\* requested one, and has not taken its depth and value.
C2_TerminatedDone ==
    /\ mode = "deep"
    /\ ds.search_is_terminated
    /\ out.ok /\ out.done
    /\ ds.depth = 1 /\ out.depth = 1
    /\ ds.params.depth = MaxDepth
    /\ ex.nstarts = 2 /\ ~ex.term

(***************************************************************************)
(* AspirationSearcher (deepening.rs), driven by the caller.                *)
(***************************************************************************)
FullBounds ==
    asp.params.lower_bound = VALUE_MIN /\ asp.params.upper_bound = VALUE_MAX

\* The report with done = true of a search that was not terminated.
AspFinal == out.ok /\ out.done /\ ~asp.search_is_terminated

\* C3: whatever window the transposition table seeded, a search with the
\* caller's bounds (VALUE_MIN, VALUE_MAX) that is not terminated, over an
\* inner searcher whose answers are V inside the window and bounds of V
\* outside it (V <= v <= alpha, or beta <= v <= V), eventually gives its
\* final report, and the value of the final report is V.
C3_ValueOfFullSearch ==
    /\ [](mode = "asp" /\ FullBounds /\ AspFinal /\ ~ex.unsound
             => out.value = truth.root)
    /\ (mode = "asp" /\ env.active)
           ~> (~env.active \/ asp.search_is_terminated)

\* C3 as stated, for an inner searcher that may answer any value <= alpha
\* when V <= alpha and any value >= beta when V >= beta.
C3_ValueOfAnySearch ==
    (mode = "asp" /\ FullBounds /\ AspFinal) => out.value = truth.root

\* The window seeded from the table was widened at least twice, on answers
\* that were bounds of V, before the final report gave V.
C3_WidenedTwice ==
    /\ mode = "asp" /\ FullBounds /\ AspFinal /\ ~ex.unsound
    /\ asp.last.n >= 3
    /\ out.value = truth.root

\* C4: the search is issued again after every attempt whose value is at or
\* outside the window of the attempt and strictly between the caller's
\* bounds; the final report of a search that was not terminated carries the
\* value v of the last attempt, and v is strictly inside the window of that
\* attempt, or v <= lower_bound, or v >= upper_bound.
C4_ReissueUntilInside ==
    (mode = "asp" /\ asp.last.n > 0) =>
        LET l == asp.last
            lower_bound == asp.params.lower_bound
            upper_bound == asp.params.upper_bound
            failed == l.v <= l.alpha \/ l.v >= l.beta
        IN /\ (failed /\ lower_bound < l.v /\ l.v < upper_bound) => l.again
           /\ ex.nstarts = l.n + (IF l.again THEN 1 ELSE 0)
           /\ AspFinal => /\ ~l.again
                          /\ out.value = l.v
                          /\ \/ l.alpha < l.v /\ l.v < l.beta
                             \/ l.v <= lower_bound
                             \/ l.v >= upper_bound

\* A final report after a fail high and a fail low, within narrower bounds
\* of the caller.
C4_FinalAfterReissue ==
    /\ mode = "asp" /\ AspFinal /\ ~FullBounds
    /\ asp.last.n >= 2
    /\ asp.last.alpha < asp.last.v /\ asp.last.v < asp.last.beta

(***************************************************************************)
(* MultipvSearcher (deepening.rs), driven by the caller.                   *)
(***************************************************************************)
\* The report with done = true of a search that was not terminated.
MpvFinal == mode = "mpv" /\ out.ok /\ out.done /\ ~ms.search_is_terminated

Range(q) == {q[i] : i \in 1..Len(q)}

\* The final report lists every move of searchmoves once, the recorded
\* values are not increasing along the list, and the report's value is the
\* first of them.
SortedMoves ==
    /\ Len(out.moves) = Len(env.req.searchmoves)
    /\ Range(out.moves) = Range(env.req.searchmoves)
    /\ out.moves = ms.params.searchmoves
    /\ Len(ms.values) = Len(out.moves)
    /\ \A i \in 1..Len(ms.values) - 1 : ms.values[i] >= ms.values[i + 1]
    /\ out.value = ms.values[1]

\* The first k moves of the list carry their own values, kept between the
\* caller's bounds, and no later move is worth more than the k-th, unless
\* the k-th has reached the upper bound.
BestFirst ==
    LET k == Min(env.req.variation_count, Len(out.moves))
        lb == env.req.lower_bound
        ub == env.req.upper_bound
    IN /\ \A i \in 1..k :
            ms.values[i] = Max(lb, Min(ub, truth.child[out.moves[i]]))
       /\ \A j \in (k + 1)..Len(out.moves) :
            \/ truth.child[out.moves[j]] <= Max(lb, ms.values[k])
            \/ ms.values[k] >= ub

\* C5: with variation_count = k and n >= k moves in searchmoves, the final
\* report of a search that was not terminated lists all the n moves of
\* searchmoves, each once (k of them only when n = k), ordered by
\* descending recorded value, the k best moves first.
C5_AllMovesSorted ==
    (MpvFinal /\ env.req.searchmoves # <<>>) => (SortedMoves /\ BestFirst)

\* C5 as stated: the final list has exactly k moves.
C5_ExactlyKMoves ==
    (/\ MpvFinal
     /\ env.req.searchmoves # <<>>
     /\ env.req.variation_count <= Len(env.req.searchmoves))
        => /\ SortedMoves
           /\ Len(out.moves) = env.req.variation_count

\* A final report for k = 1 that lists more than one move, the last move of
\* searchmoves having become the first.
C5_MoreThanKMoves ==
    /\ MpvFinal
    /\ env.req.variation_count = 1
    /\ Len(out.moves) = MaxMoves
    /\ out.moves[1] = MaxMoves
    /\ ms.values[1] > ms.values[MaxMoves]

\* A search with an empty searchmoves list.
EmptySearch == mode = "mpv" /\ env.req.searchmoves = <<>>

\* C6: when start_search is given an empty searchmoves list, no inner
\* search is started and nothing is written to the transposition table;
\* the first try_recv_report returns a report with done = true,
\* searched_nodes = 0, the requested depth and the final-position evaluation
\* of the root, and every later try_recv_report before the next
\* start_search returns no report.
C6_EmptySearchmoves ==
    EmptySearch =>
        /\ ex.nstarts = 0 /\ ~ex.busy /\ ex.chan = <<>>
        /\ ms.ttw = <<>>
        /\ ~env.late
        /\ env.active => /\ out = Err
                         /\ ms.params.searchmoves = <<>>
        /\ ~env.active => /\ out = Report(0, env.req.depth,
                                           evaluate_final(env.req.position),
                                           <<>>, TRUE)
                          /\ ms.params.searchmoves = <<InvalidMove>>

\* The report of an empty search has been returned, after a search that
\* did start inner searches.
C6_EmptySearchDone ==
    /\ EmptySearch
    /\ ~env.active
    /\ out.ok /\ out.done
    /\ ms.searcher.last.n > 0

(***************************************************************************)
(* The transposition table, one thread.                                    *)
(***************************************************************************)
\* Value, bound, depth and static eval of the data d are those of e
SameButMove(d, e) ==
    /\ d.value = e.value
    /\ bound(d) = bound(e)
    /\ d.depth = e.depth
    /\ d.static_eval = e.static_eval

\* The move digest store writes for the last store: the entry's own, or,
\* if that is invalid and the slot was empty or held the same key, the one
\* that was in the slot.
MoveWritten ==
    IF th.stored.e.move_digest # MoveDigestInvalid THEN th.stored.e.move_digest
    ELSE IF th.stored.found THEN th.stored.old
    ELSE MoveDigestInvalid

\* What probe(k) returns now, k being the key of the last store
ProbeStored == probe(tt, Key64(th.stored.k))

\* C7: immediately after store(k, e), probe(k) returns Some entry with the
\* value, bound, depth and static eval of e and the table's current
\* generation; its move digest is that of e, or, when e's is invalid and
\* store took an empty slot or a slot of the same key, the digest that slot
\* held.
C7_ProbeAfterStore ==
    (mode = "tt" /\ th.last.op = "store") =>
        /\ ProbeStored.hit
        /\ SameButMove(ProbeStored.data, th.stored.e)
        /\ ProbeStored.data.move_digest = MoveWritten
        /\ ProbeStored.data.gen_bound - bound(ProbeStored.data) = tt.generation

\* C7 as stated: the move digest returned is always that of e
C7_ProbeReturnsEntry ==
    (mode = "tt" /\ th.last.op = "store") =>
        /\ ProbeStored.hit
        /\ SameButMove(ProbeStored.data, th.stored.e)
        /\ ProbeStored.data.move_digest = th.stored.e.move_digest
        /\ ProbeStored.data.gen_bound - bound(ProbeStored.data) = tt.generation

\* probe(k) was called right after store(k, e), e without a move, and hit a
\* record that has the move of the record store found for k
C7_ProbedKeptMove ==
    /\ mode = "tt"
    /\ th.last.op = "probe" /\ th.last.after = "store" /\ th.last.hit
    /\ th.stored.e.move_digest = MoveDigestInvalid
    /\ th.stored.data.move_digest # MoveDigestInvalid

\* C9: after store(k, e), whatever calls of new_search and probe follow (and
\* no other store, no clear), probe(k) returns Some entry with the payload
\* store wrote (value, bound, depth and static eval of e, the move digest
\* written), and the record it leaves still answers to k.
C9_PayloadPersists ==
    (mode = "tt" /\ th.stored.some) =>
        /\ ProbeStored.hit
        /\ SameButMove(ProbeStored.data, th.stored.e)
        /\ ProbeStored.data.move_digest = MoveWritten
        /\ probe(ProbeStored.t, Key64(th.stored.k)).hit
        /\ probe(ProbeStored.t, Key64(th.stored.k)).data = ProbeStored.data

\* C9 as stated: the payload, move digest included, is that of e
C9_PayloadOfEntry ==
    (mode = "tt" /\ th.stored.some) =>
        /\ ProbeStored.hit
        /\ SameButMove(ProbeStored.data, th.stored.e)
        /\ ProbeStored.data.move_digest = th.stored.e.move_digest
        /\ probe(ProbeStored.t, Key64(th.stored.k)).hit

\* probe(k) hit twice in a row in a generation later than that of the last
\* store, which was for k
C9_ProbedTwiceAged ==
    /\ mode = "tt"
    /\ th.last.op = "probe" /\ th.last.after = "probe" /\ th.last.hit
    /\ th.stored.data.gen_bound - bound(th.stored.data) < tt.generation
    /\ ProbeStored.data.gen_bound - bound(ProbeStored.data) = tt.generation

\* C10: on a table just constructed or cleared, probe(k) returns None for
\* every key k, and the generation is 0.
C10_EmptyTableProbesNone ==
    (mode = "tt" /\ th.last.op \in {"new", "clear"}) =>
        /\ tt.generation = 0
        /\ \A k \in Keys : ~probe(tt, Key64(k)).hit

\* probe(0) was called on a table just constructed or cleared and returned
\* Some entry
C10_ProbeZeroHit ==
    /\ mode = "tt"
    /\ th.last.op = "probe" /\ th.last.after = "empty" /\ th.last.hit

(***************************************************************************)
(* The transposition table, several threads.                               *)
(***************************************************************************)
\* The data d is what a store call for the key k wrote, but for the
\* generation
WrittenFor(k, d) ==
    \E w \in th.written :
        /\ w[1] = k
        /\ SameButMove(d, w[2])
        /\ d.move_digest = w[2].move_digest

\* C8: with threads calling store and probe on the records of one cluster,
\* the words of a record written one by one, whatever probe(k) returns as
\* Some is a payload that one store call for the key k wrote.
C8_ProbeReturnsStoredForKey ==
    mode = "par" =>
        \A p \in Threads :
            (th.t[p].ret.returned /\ th.t[p].ret.hit) =>
                WrittenFor(th.t[p].ret.k, th.t[p].ret.data)

\* probe(k) returned Some with what the store call of another thread, for
\* another key, wrote to the slot of k's record
C8_ProbedDuringStore ==
    /\ mode = "par"
    /\ \E p, q \in Threads :
          /\ th.t[p].ret.returned /\ th.t[p].ret.hit
          /\ th.t[q].w # DefaultRecord
          /\ th.t[q].k # th.t[p].ret.k
          /\ th.t[q].i = th.t[p].i
          /\ cluster_mut(Key64(th.t[q].k)) = cluster_mut(Key64(th.t[p].ret.k))
          /\ SameButMove(th.t[p].ret.data, th.t[q].w.data)
          /\ ~WrittenFor(th.t[p].ret.k, th.t[p].ret.data)

\* The test of probe passes only for a key word and a data word that one
\* store call for the key wrote
ParTestPassesForWritten ==
    mode = "par" =>
        \A p \in Threads :
            th.t[p].pc = "set_generation" => WrittenFor(th.t[p].k, th.t[p].rdata)

(***************************************************************************)
(* store and the move of the record it finds.                              *)
(***************************************************************************)
\* The slots of the cluster of the key k whose records answer to k
SlotsOf(t, k) ==
    {i \in 1..4 :
        Xor64(t.table[cluster_mut(Key64(k))][i].key,
              as_u64(t.table[cluster_mut(Key64(k))][i].data)) = Key64(k)}

\* The step is a call store(k, e) on a table that holds a record for k, and
\* after it probe(k) returns the move digest of e, or, e having none, the
\* move digest probe(k) returned before.
StoreKeepsMove ==
    (th'.last.op = "store" /\ probe(tt, Key64(th'.stored.k)).hit) =>
        /\ probe(tt', Key64(th'.stored.k)).hit
        /\ probe(tt', Key64(th'.stored.k)).data.move_digest =
              IF th'.stored.e.move_digest # MoveDigestInvalid
              THEN th'.stored.e.move_digest
              ELSE probe(tt, Key64(th'.stored.k)).data.move_digest

\* C11: store(k, e) on a table whose cluster holds a record for k writes a
\* record for k that has the move digest of e when that is valid, and the
\* move digest stored for k before when e's is invalid.
C11_StoreKeepsMove == [][StoreKeepsMove]_vars

\* store(k, e), e without a move, took the slot of another key's record,
\* whose stored key word was zero, and lost the move stored for k: the
\* cluster now holds two records for k, the first one without a move
C11_MoveLost ==
    /\ mode = "zero"
    /\ th.last.op = "store"
    /\ th.stored.e.move_digest = MoveDigestInvalid
    /\ Cardinality(SlotsOf(tt, th.stored.k)) = 2
    /\ probe(tt, Key64(th.stored.k)).data.move_digest = MoveDigestInvalid
    /\ \E i \in SlotsOf(tt, th.stored.k) :
          tt.table[cluster_mut(Key64(th.stored.k))][i].data.move_digest
              # MoveDigestInvalid

(***************************************************************************)
(* The has_reports flag and the report channel.                            *)
(***************************************************************************)
\* A report is in the channel, the worker has announced it, and the caller
\* is not inside try_recv_report
FlagAgrees ==
    /\ Announced(hr) => hr.has_reports
    /\ ~hr.lost
    /\ hr.cleared \in {"never", "empty-locked"}

\* C12: AlphabetaSearcher: whenever a report is in the channel and the worker
\* is not in the middle of announcing it, has_reports is true; wait_report
\* does not wait then; try_recv_report sets the flag to false only after it
\* found the channel empty while it held the mutex.
C12_FlagWithReport == mode = "ab" => FlagAgrees

\* try_recv_report found the channel empty and cleared the flag, the worker
\* then sent and announced a report, and wait_report returned at once
C12_ClearedThenAnnounced ==
    /\ mode = "ab"
    /\ hr.cleared = "empty-locked"
    /\ Announced(hr)
    /\ hr.c = "idle"
    /\ hr.result = "err"
    /\ hr.sent = 1
    /\ hr.waited = "passed"

\* C13: SimpleSearcher: under every interleaving of try_recv_report with the
\* worker, whenever a report is in the channel and the worker is not in the
\* middle of announcing it, has_reports is true, and wait_report does not
\* wait then.
C13_FlagWithReport ==
    mode = "simple" => (Announced(hr) => hr.has_reports) /\ ~hr.lost

\* The worker sent and announced a report between try_recv() and the
\* clearing of the flag: wait_report waits although the report is in the
\* channel, and no notification will come
C13_LostWakeup ==
    /\ mode = "simple"
    /\ hr.c = "waiting"
    /\ hr.lost
    /\ Announced(hr)
    /\ ~hr.has_reports
    /\ hr.sent = MaxReports

(***************************************************************************)
(* do_move at one node.                                                    *)
(***************************************************************************)
\* The bits of the moves that do_move returned at the node, in their order
ReturnedBits == [i \in 1..Len(se.returned) |-> se.returned[i].m.bits]

\* The legal moves of the node's position
LegalBits == se.s.game.legal \cap BitsOf(se.s.game.gen)

\* The last call of do_move returned None
ReturnedNone == se.op = "do_move" /\ se.ret = <<>>

\* C16: the calls of do_move at a node return legal moves only, each move
\* once, each returned move is played on the position, and None is returned
\* when, and only when, every legal move of the position has been returned.
C16_EveryLegalMoveOnce ==
    mode = "node" =>
        /\ \A i \in 1..Len(se.returned) : ReturnedBits[i] \in LegalBits
        /\ \A i, j \in 1..Len(se.returned) :
              ReturnedBits[i] = ReturnedBits[j] => i = j
        /\ (se.op = "do_move" /\ se.ret # <<>>) =>
              se.s.played = <<se.ret[1].bits>>
        /\ ReturnedNone => {ReturnedBits[i] : i \in 1..Len(se.returned)} = LegalBits

\* All the moves are legal, the third generated move is the hash move, a
\* capture loses material: do_move returned None after all the moves
C16_AllReturned ==
    /\ mode = "node"
    /\ ReturnedNone
    /\ Len(se.returned) = Len(se.s.game.gen)
    /\ Len(se.returned) >= 4
    /\ Top(se.s).entry.move16 = digest(se.s.game.gen[3])
    /\ se.s.game.bad # {}

\* The class of a move of the game g in the order of do_move: 1 for a move
\* with the capture score that does not lose material, 2 for the other
\* moves with a capture score, 3 for the quiet moves
MoveClass(g, bits) ==
    IF bits \in MaxScored(g.gen) /\ bits \notin g.bad THEN 1
    ELSE IF \E i \in 1..Len(g.gen) :
               g.gen[i].bits = bits /\ g.gen[i].score >= MOVE_SCORE_MAX - 1
    THEN 2
    ELSE 3

\* The class of the i-th returned move; the hash move, returned by the
\* first call in the phase of the hash move, has class 0
ReturnedClass(i) ==
    IF i = 1 /\ se.returned[1].phase = "TriedHashMove" THEN 0
    ELSE MoveClass(se.s.game, ReturnedBits[i])

PhaseRank(phase) == CHOOSE i \in 1..Len(NodePhase) : NodePhase[i] = phase

\* The hash move of the table's entry can be played
HashMovePlayable ==
    \E i \in 1..Len(se.s.game.gen) :
        /\ digest(se.s.game.gen[i]) = Top(se.s).entry.move16
        /\ se.s.game.gen[i].bits \in se.s.game.legal

\* C17: at a node do_move returns the hash move first when the entry of the
\* table has a playable one, then the moves with the capture score that do
\* not lose material, then the other moves with a capture score, then the
\* quiet moves; the phase of the node goes forward in the order of NodePhase.
C17_MovesInOrder ==
    mode = "node" =>
        /\ \A i, j \in 1..Len(se.returned) :
              i < j => /\ ReturnedClass(i) <= ReturnedClass(j)
                       /\ PhaseRank(se.returned[i].phase)
                             <= PhaseRank(se.returned[j].phase)
        /\ \A i \in 1..Len(se.returned) :
              /\ PhaseRank(se.returned[i].phase) <= PhaseRank(Top(se.s).phase)
              /\ PhaseRank(se.returned[i].phase) =
                    CASE ReturnedClass(i) = 0 -> 3
                      [] ReturnedClass(i) = 1 -> 4
                      [] ReturnedClass(i) = 2 -> 5
                      [] OTHER -> 7
        /\ (HashMovePlayable /\ se.returned # <<>>) =>
              /\ digest(se.returned[1].m) = Top(se.s).entry.move16
              /\ se.returned[1].phase = "TriedHashMove"
        /\ PhaseRank(Top(se.s).phase) >= 2

\* The hash move, a winning capture, a losing capture, the under-promotion
\* and a quiet move were returned, in this order
C17_AllClassesReturned ==
    /\ mode = "node"
    /\ Len(se.returned) >= 5
    /\ [i \in 1..5 |-> ReturnedClass(i)] = <<0, 1, 2, 2, 3>>
    /\ Top(se.s).phase = "SortedQuietMoves"

(***************************************************************************)
(* run, report_function and reset.                                         *)
(***************************************************************************)
\* The nodes given to report_progress in the first i events of the log
RECURSIVE NodesIn(_, _)
NodesIn(log, i) ==
    IF i = 0 THEN 0
    ELSE NodesIn(log, i - 1) + (IF log[i][1] = "nodes" THEN log[i][2] ELSE 0)

\* The calls of report_function in the log, and the last one before event i
Reports(log) == {i \in 1..Len(log) : log[i][1] = "report"}
ReportBefore(log, i) ==
    IF \E k \in Reports(log) : k < i
    THEN CHOOSE k \in Reports(log) : k < i /\ \A j \in Reports(log) : j < i => j <= k
    ELSE 0

\* The nodes accumulated at event i since the last call of report_function
NewNodes(log, i) == NodesIn(log, i) - NodesIn(log, ReportBefore(log, i))

\* report_function is called, with the number of all the nodes so far, when
\* and only when NODE_COUNT_REPORT_INTERVAL new nodes have accumulated
ReportedInTime(log) ==
    /\ \A i \in Reports(log) :
          /\ i > 1
          /\ log[i - 1][1] = "nodes"
          /\ NewNodes(log, i - 1) >= NODE_COUNT_REPORT_INTERVAL
          /\ log[i][2] = NodesIn(log, i)
    /\ \A i \in 1..Len(log) :
          (log[i][1] = "nodes" /\ NewNodes(log, i) >= NODE_COUNT_REPORT_INTERVAL)
              => (i < Len(log) /\ log[i + 1][1] = "report")
    /\ \A i, j \in Reports(log) : i < j => log[i][2] < log[j][2]

\* report_function answered true in the run
Answered(s) == s.stop \in 1..s.calls

\* C14: run calls report_function with the number of the nodes searched so
\* far each time NODE_COUNT_REPORT_INTERVAL new nodes have accumulated, with
\* growing arguments; when report_function answers true, run returns
\* Err(TerminatedSearch) and nothing follows that call: no move is played,
\* nothing is stored, report_function is not called again.
C14_ReportsAndTermination ==
    (mode = "run" /\ se.op = "run") =>
        /\ ReportedInTime(se.s.log)
        /\ se.s.calls = Cardinality(Reports(se.s.log))
        /\ Answered(se.s) =>
              /\ ~se.ok
              /\ se.s.calls = se.s.stop
              /\ se.s.log[Len(se.s.log)][1] = "report"
        /\ ~Answered(se.s) => se.ok

\* report_function answered true at its second call, two moves deep, after
\* a store
C14_TerminatedDeep ==
    /\ mode = "run"
    /\ se.op = "run"
    /\ ~se.ok
    /\ se.s.stop = 2
    /\ Len(se.s.played) = 2
    /\ \E i \in 1..Len(se.s.log) : se.s.log[i][1] = "store"

\* C15: after a run that ended with Err(TerminatedSearch), reset puts the
\* move stack back at its starting ply, empties the stack of node states,
\* sets the node counters to zero, and the position is the root position.
C15_ResetRestores ==
    (mode = "run" /\ se.op = "reset" /\ ~se.ok) =>
        /\ ply(se.s.moves) = se.s.moves_starting_ply
        /\ se.s.state_stack = <<>>
        /\ node_count(se.s) = 0
        /\ se.s.played = <<>>

\* After the reset the move stack, the node states and the counters are as
\* they were, the moves played before the termination are on the position
C15_PositionNotRoot ==
    /\ mode = "run"
    /\ se.op = "reset"
    /\ ~se.ok
    /\ se.s.moves = StartStack
    /\ se.s.state_stack = <<>>
    /\ node_count(se.s) = 0
    /\ Len(se.s.played) = 2

(***************************************************************************)
(* MoveStack.                                                              *)
(***************************************************************************)
\* C18: restore() makes the current move list the list that was current at
\* the matching save(), whatever was pushed, popped and removed in between,
\* and ply() is at its value before that save().
C18_RestoreGivesSavedList ==
    (mode = "mst" /\ mst.op = "restore" /\ ~mst.panic) =>
        /\ iter(mst.s) = mst.snap.list
        /\ ply(mst.s) = mst.snap.ply

\* After save(), pop() and restore() the current list is shorter than the
\* list that was saved
C18_SavedMoveLost ==
    /\ mode = "mst"
    /\ mst.op = "restore"
    /\ ~mst.panic
    /\ ply(mst.s) = mst.snap.ply
    /\ Len(iter(mst.s)) < Len(mst.snap.list)

\* The saved move lists of a stack
SavedPart(s) ==
    [moves |-> SubSeq(s.moves, 1, s.first_move_index),
     savepoints |-> s.savepoints, first_move_index |-> s.first_move_index]

\* The step is a call of pop on a stack whose current list is empty: it
\* returns None and leaves the stack as it is
PopsCurrentOnly ==
    (mst'.op = "pop" /\ ~mst'.panic /\ Len(mst.s.moves) <= mst.s.first_move_index)
        => (mst'.ret = <<>> /\ mst'.s = mst.s)

\* C19: pop() returns None whenever the current move list is empty and never
\* takes a move from a saved list, so that moves.len() >= first_move_index
\* holds after every operation.
C19_PopLeavesSavedLists ==
    [][mode = "mst" => (PopsCurrentOnly /\ LenAsserted(mst'.s))]_vars

\* pop() returned a move of a saved list: the vector is shorter than
\* first_move_index
C19_PoppedSavedMove ==
    /\ mode = "mst"
    /\ mst.op = "pop"
    /\ mst.ret # <<>>
    /\ ~LenAsserted(mst.s)

\* How often the move m is in the list
Count(list, m) == Cardinality({i \in 1..Len(list) : list[i] = m})

\* The step is a call of remove_best_move that returns
BestRemoved ==
    (mst'.op = "remove_best_move" /\ ~mst'.panic) =>
        /\ mst'.ret = <<>> <=> iter(mst.s) = <<>>
        /\ mst'.ret # <<>> =>
              /\ \A i \in 1..Len(iter(mst.s)) : ~Greater(iter(mst.s)[i], mst'.ret[1])
              /\ \A m \in MstMoves :
                    Count(iter(mst.s), m) =
                       Count(iter(mst'.s), m) + (IF m = mst'.ret[1] THEN 1 ELSE 0)
        /\ SavedPart(mst'.s) = SavedPart(mst.s)

\* C20: remove_best_move() returns None if and only if the current move list
\* is empty; otherwise it takes one move from the current list and returns
\* it, no move of the current list is greater than that move, the other
\* moves of the current list are kept, and no saved list is changed.
C20_BestMoveRemoved == [][mode = "mst" => BestRemoved]_vars

\* remove_best_move returned the greater of the two moves of the current
\* list, above a saved list
C20_BestOfTwo ==
    /\ mode = "mst"
    /\ mst.op = "remove_best_move"
    /\ mst.ret # <<>>
    /\ ply(mst.s) >= 1
    /\ mst.s.first_move_index >= 1
    /\ Len(iter(mst.s)) = 1
    /\ Greater(mst.ret[1], iter(mst.s)[1])

(***************************************************************************)
(* Board: the generated moves against the legal moves.                     *)
(***************************************************************************)
Generated21 == mode = "board" /\ bd.op # "new"

EveryLegalMoveGenerated ==
    \A m \in LegalMovesOf(bd.p) : \E e \in bd.moves : DigestOf(e) = m

NonKingMovesLegal ==
    \A e \in bd.moves : e.piece # KING => Legal(bd.p, DigestOf(e))

\* C21: on every position whose king square, checkers, pinned pieces,
\* en-passant square and castling rights agree with the board, every legal
\* move is generated with its origin, destination, move type and promotion
\* piece, and every generated move of a piece other than the king is legal.
C21_GeneratedMovesLegal ==
    Generated21 => EveryLegalMoveGenerated /\ NonKingMovesLegal

\* an en-passant capture was generated that leaves the king in check
C21_IllegalEnPassant ==
    /\ Generated21
    /\ \E e \in bd.moves :
          /\ e.move_type = MOVE_ENPASSANT
          /\ DigestOf(e) \in RuleMoves(bd.p)
          /\ ~Safe(Play(bd.p.b, bd.p.us, DigestOf(e)), bd.p.us)

\* the position can follow a double push: with the passed pawn back on the
\* square it left, the king of the side to move is not attacked
AfterDoublePush(p) ==
    \A e \in p.en_passant_bb :
        Safe(Put(Remove(p.b, e - 8 * Forward(p.us)),
                 e + 8 * Forward(p.us), PAWN, 1 - p.us),
             p.us)

\* the pawn that an en-passant capture takes
TakenPawn(e) == e.dest_square - 8 * Forward(bd.p.us)

Covers(e) ==
    \/ e.dest_square \in bd.p.checkers
    \/ \E x \in bd.p.checkers : e.dest_square \in Between(bd.p.king_square, x)
    \/ e.move_type = MOVE_ENPASSANT /\ TakenPawn(e) \in bd.p.checkers

\* C22: with no checker a move of a piece other than the king lands on any
\* square but those of the own pieces; with one checker it lands on the
\* checker's square or between the king and the checker, or it is the
\* en-passant capture of the checking pawn; with two checkers or more only
\* king moves are generated; in check no castling move is generated.
C22_LegalDests ==
    Generated21 =>
        /\ \A e \in bd.moves : e.dest_square \notin bd.p.b.color[bd.p.us]
        /\ Cardinality(bd.p.checkers) = 0 =>
               \A m \in RuleMoves(bd.p) :
                   /\ m.orig_square # bd.p.king_square
                   /\ m.orig_square \notin bd.p.pinned
                   /\ m.move_type # MOVE_ENPASSANT
                   => \E e \in bd.moves : DigestOf(e) = m
        /\ Cardinality(bd.p.checkers) = 1 =>
               \A e \in bd.moves : e.piece # KING => Covers(e)
        /\ Cardinality(bd.p.checkers) >= 2 =>
               \A e \in bd.moves : e.piece = KING
        /\ bd.p.checkers # {} =>
               \A e \in bd.moves : e.move_type # MOVE_CASTLING

\* with one checker, a generated move that covers nothing
C22_EnPassantCoversNothing ==
    /\ Generated21
    /\ Cardinality(bd.p.checkers) = 1
    /\ \E e \in bd.moves : e.piece # KING /\ ~Covers(e)

\* the rank of the king is open to an enemy rook or queen once the two pawns
\* of the en-passant capture are off the board
RankExposed(e) ==
    \E x \in bd.p.b.color[1 - bd.p.us] \cap
             (bd.p.b.piece_type[ROOK] \cup bd.p.b.piece_type[QUEEN]) :
        /\ Rank(x) = Rank(bd.p.king_square)
        /\ Between(bd.p.king_square, x) \cap bd.p.b.occupied
               \subseteq {e.orig_square, TakenPawn(e)}

\* C23: an en-passant capture is generated only when the king is not in
\* check or the only checker is the passed pawn, and when the rank of the
\* king is not open to an enemy rook or queen without the two pawns.
C23_EnPassantOnlyWhen ==
    Generated21 =>
        \A e \in bd.moves :
            e.move_type = MOVE_ENPASSANT
            => /\ bd.p.checkers \subseteq {TakenPawn(e)}
               /\ ~RankExposed(e)

\* an en-passant capture generated in a check given by a knight
C23_EnPassantInKnightCheck ==
    /\ Generated21
    /\ bd.p.checkers \cap bd.p.b.piece_type[KNIGHT] # {}
    /\ \E e \in bd.moves : e.move_type = MOVE_ENPASSANT

\* on the positions that can follow a double push the three hold
LegalAfterDoublePush == AfterDoublePush(bd.p) => C21_GeneratedMovesLegal
DestsAfterDoublePush == AfterDoublePush(bd.p) => C22_LegalDests
EnPassantAfterDoublePush == AfterDoublePush(bd.p) => C23_EnPassantOnlyWhen

(***************************************************************************)
(* Board: the static exchange evaluation against the exchange played on   *)
(* the board.                                                              *)
(***************************************************************************)
\* the attacker that captures next: the least valuable one, a knight before
\* a bishop, the one on the lowest square
NextAttacker(b, set) ==
    CHOOSE s \in set :
        \A t \in set :
            \/ PieceOn(b, s) > PieceOn(b, t)
            \/ PieceOn(b, s) = PieceOn(b, t) /\ s <= t

\* The gains of the captures made on to_square, each seen by the side that
\* made it: the piece on from_square captures, its square becomes empty (a
\* king uncovers nothing), the attackers of the other side are found anew
\* on the board, and the exchange ends when none is left, or before a
\* capture that cannot change who wins.
RECURSIVE Exchanged(_, _, _, _, _, _)
Exchanged(b, to_square, color, from_square, used, gain) ==
    LET speculative == VALUE[PieceOn(b, from_square) + 1] - gain[Len(gain)]
        after == IF from_square \in b.piece_type[KING] THEN b
                 ELSE Remove(b, from_square)
        attackers == Attackers(after, 1 - color, to_square)
                         \ (used \cup {from_square})
    IN  IF Max(0 - gain[Len(gain)], speculative) < 0 \/ attackers = {}
        THEN gain
        ELSE Exchanged(after, to_square, 1 - color,
                       NextAttacker(after, attackers),
                       used \cup {from_square}, Append(gain, speculative))

ExchangeValue(b, color, from_square, to_square, target_piece) ==
    Negamaxed(Exchanged(b, to_square, color, from_square, {},
                        <<VALUE[target_piece + 1]>>))

TestSees ==
    <<calc_see(TestBoard, BLACK, SqAt(5, 5), QUEEN, SqAt(5, 3), PAWN),
      calc_see(TestBoard, BLACK, SqAt(5, 5), QUEEN, SqAt(4, 4), PAWN),
      calc_see(TestBoard, WHITE, SqAt(7, 3), PAWN, SqAt(6, 4), PAWN),
      calc_see(TestBoard, BLACK, SqAt(1, 3), KING, SqAt(1, 2), PAWN)>>

\* C24: calc_see gives the negamaxed gains of the captures that the two
\* sides make in turn on the destination square, each with the least
\* valuable attacker of the side to move, the sliders behind a pawn, bishop,
\* rook or queen that captured among the attackers, seen by the side of the
\* first capture; the four captures of the test give 100, -875, 100, -9900.
C24_SeeIsExchangeValue ==
    mode = "board" /\ bd.op = "calc_see" =>
        /\ bd.see.value = ExchangeValue(bd.p.b, bd.p.us, bd.m.orig_square,
                                        bd.m.dest_square, bd.m.captured_piece)
        /\ bd.see.of_move = bd.see.value
        /\ bd.see.asserted
        /\ TestSees = <<100, 0 - 875, 100, 0 - 9900>>

\* an exchange of three captures or more, the first one losing material
C24_LongExchange ==
    /\ mode = "board" /\ bd.op = "calc_see"
    /\ Len(Swapped(bd.p.b, bd.p.us, bd.m.orig_square, bd.m.piece,
                   bd.m.dest_square, bd.m.captured_piece).gain) >= 4
    /\ bd.see.value < 0

(***************************************************************************)
(* Move: the accessors against the arguments of the constructor.          *)
(***************************************************************************)
Made25 == mode = "move" /\ cm.op = "new"

AccessorsReturn(a, m) ==
    /\ Move_move_type(m) = a.move_type
    /\ Move_piece(m) = a.piece
    /\ Move_orig_square(m) = a.orig_square
    /\ Move_dest_square(m) = a.dest_square
    /\ Move_captured_piece(m) = a.captured_piece
    /\ Move_en_passant_file(m) = a.en_passant_file
    /\ Move_castling(m) = a.castling
    /\ a.move_type = MOVE_PROMOTION
           => Move_aux_data(m) = a.promoted_piece_code
    /\ digest(m) = a.move_type * 16384 + a.orig_square * 256
                   + a.dest_square * 4 + Move_aux_data(m)
    /\ digest(m) = m.bits % 65536

\* C25: for arguments that pass the assertions of Move::new, the accessors
\* move_type, piece, orig_square, dest_square, captured_piece,
\* en_passant_file, castling and, for a promotion, aux_data give the
\* arguments back, and digest is the low 16 bits: move type, origin,
\* destination and aux data.
C25_AccessorsReturnArguments == Made25 => AccessorsReturn(cm.a, cm.m)

\* a move type above MOVE_NORMAL passes the assertions and is not given back
C25_MoveTypeAboveNormal ==
    /\ Made25
    /\ cm.a.move_type > MOVE_NORMAL
    /\ Move_move_type(cm.m) # cm.a.move_type

\* with a move type of the four that exist the accessors give the
\* arguments back
AccessorsOfMoveTypes ==
    Made25 /\ cm.a.move_type <= MOVE_NORMAL => AccessorsReturn(cm.a, cm.m)

\* Move::new(WHITE, MOVE_NORMAL, PAWN, E2, E4, NO_PIECE, 8, 0b1011, 0) of
\* the test
TestMove == Move_new(WHITE, MOVE_NORMAL, PAWN, 12, 28, NO_PIECE, 8, 11, 0)
TestMoveAccessors ==
    /\ Move_piece(TestMove) = PAWN
    /\ Move_captured_piece(TestMove) = NO_PIECE
    /\ Move_orig_square(TestMove) = 12
    /\ Move_dest_square(TestMove) = 28
    /\ Move_en_passant_file(TestMove) = 8
    /\ Move_aux_data(TestMove) = 0
    /\ Move_castling(TestMove) = 11

(***************************************************************************)
(* UCI server: the creation of the engine, the lines that do not parse,   *)
(* the exit codes.                                                         *)
(***************************************************************************)
IsSetOption(cmd) == cmd.kind = "SetOption"
IsSetOptionCall(call) == call.method = "set_option"
IsCreateCall(call) == call.method = "create"
AsSetOptionCalls(cmds) ==
    [i \in 1 .. Len(cmds) |-> Call("set_option", cmds[i].a, cmds[i].b)]
\* the method that gets a command
MethodOf(kind) ==
    CASE kind = "SetOption" -> "set_option"
      [] kind = "Position" -> "position"
      [] kind = "Stop" -> "stop"
      [] kind = "UciNewGame" -> "new_game"
      [] kind = "PonderHit" -> "ponder_hit"
      [] kind = "Go" -> "go"

\* C26: the engine is created once, at the first command.  When that one is
\* setoption name Hash the engine is created with the size given (none when
\* the value is no number) and set_option is not called for it; otherwise
\* the engine is created with the default size and the command is handled.
\* Every later setoption, Hash too, is passed to set_option and creates no
\* engine.
C26_EngineCreatedOnce ==
    mode = "uci" =>
        IF srv.done = <<>>
        THEN ~srv.engine /\ srv.calls = <<>>
        ELSE /\ srv.engine
             /\ Len(SelectSeq(srv.calls, IsCreateCall)) = 1
             /\ IF IsSetOption(srv.done[1]) /\ srv.done[1].a = <<"Hash">>
                THEN /\ srv.calls[1] =
                            Call("create", ParsedSize(srv.done[1].b), <<>>)
                     /\ SelectSeq(srv.calls, IsSetOptionCall) =
                            AsSetOptionCalls(
                                SelectSeq(Tail(srv.done), IsSetOption))
                ELSE /\ srv.calls[1] = Call("create", <<>>, <<>>)
                     /\ SelectSeq(srv.calls, IsSetOptionCall) =
                            AsSetOptionCalls(SelectSeq(srv.done, IsSetOption))
                     /\ IF srv.done[1].kind = "IsReady"
                        THEN srv.werr \/ srv.out[2] = "readyok"
                        ELSE srv.calls[2].method = MethodOf(srv.done[1].kind)

\* the engine created by setoption name Hash value 32, and a second
\* setoption name Hash passed to set_option
C26_LaterHashForwarded ==
    /\ mode = "uci"
    /\ Len(srv.done) = 2
    /\ srv.calls = <<Call("create", <<"32">>, <<>>),
                     Call("set_option", <<"Hash">>, <<"abc">>)>>

\* a position command with a word in its list of moves that is no move
BadMoveList(line) ==
    /\ line # <<>>
    /\ line[1] = "position"
    /\ \E i \in 1 .. Len(line) :
           /\ line[i] = "moves"
           /\ \E j \in (i + 1) .. Len(line) : line[j] \notin MoveWords

Unparsed(line) ==
    parse_uci_command(line).kind = "ParseError" \/ BadMoveList(line)

\* C27: a line that does not parse, a position command with a word that is
\* no move in long algebraic form among its moves included, gives no
\* command, no output and no call of the engine: the reading thread sends
\* nothing for it, and the commands handled or waiting are those sent.
C27_UnparsedLineIgnored ==
    [][mode = "uci"
       => /\ srv'.sent = srv'.done \o srv'.chan
          /\ srv'.nread = srv.nread + 1 /\ Unparsed(srv'.last)
             => /\ srv'.sent = srv.sent
                /\ srv'.chan = srv.chan
                /\ srv'.done = srv.done
                /\ srv'.calls = srv.calls
                /\ srv'.out = srv.out
                /\ srv'.engine = srv.engine
                /\ srv'.reader = srv.reader]_vars

\* after a command that the engine got, a position command with a bad move
\* was read and nothing was sent for it
C27_BadMoveIgnored ==
    /\ mode = "uci"
    /\ srv.nread = 2
    /\ BadMoveList(srv.last)
    /\ Len(srv.sent) = 1
    /\ srv.done = srv.sent
    /\ Len(srv.calls) = 2

HandshakeFails ==
    \/ srv.first \in {Eof, IoError}
    \/ ~(\E i \in 1 .. Len(srv.first) : srv.first[i] = "uci")
    \/ ~srv.wrote

\* C28: the exit code is 2 exactly when the handshake fails, 1 exactly when
\* the handshake succeeded and the session ended by the end of input or an
\* IO error, 0 exactly when it succeeded and the session ended by quit; on
\* quit every command read before it was handled before engine.exit(),
\* which is the last call.
C28_ExitCodes ==
    mode = "uci" /\ srv.pc # "start" =>
        /\ srv.code = 2 <=> HandshakeFails
        /\ srv.code = 1 <=>
               /\ ~HandshakeFails
               /\ srv.pc = "exited"
               /\ srv.werr \/ srv.reader \in {"eof", "ioerr"}
        /\ srv.code = 0 <=>
               /\ ~HandshakeFails
               /\ srv.pc = "exited"
               /\ ~srv.werr /\ srv.reader = "quit"
        /\ srv.code = 0 =>
               /\ srv.done = srv.sent
               /\ srv.chan = <<>>
               /\ srv.engine =>
                      /\ srv.calls[Len(srv.calls)].method = "exit"
                      /\ \A i \in 1 .. (Len(srv.calls) - 1) :
                             srv.calls[i].method # "exit"
        /\ \A i \in 1 .. Len(srv.calls) :
               srv.calls[i].method = "exit" => srv.pc = "exited"

\* quit after two commands that the engine got: exit code 0
C28_QuitAfterCommands ==
    /\ mode = "uci"
    /\ srv.code = 0
    /\ Len(srv.sent) = 2
    /\ Len(srv.calls) = 4

(***************************************************************************)
(* Searchers: no inner search is started before the previous one reported *)
(* done.                                                                   *)
(***************************************************************************)
\* C29: the caller starting a search only after the previous one reported
\* done, none of DeepeningSearcher, AspirationSearcher and MultipvSearcher
\* calls start_search on its inner searcher while the worker executes a
\* search or a report of the previous search is unread.
C29_NoOverlappingInnerSearch ==
    mode \in {"deep", "mod", "asp", "mpv"} => ~ex.overlap

\* a second inner search was started after the first one reported done, and
\* is being executed
C29_SecondInnerSearch ==
    /\ mode \in {"deep", "asp", "mpv"}
    /\ ex.nstarts >= 2
    /\ ex.busy
    /\ ~ex.overlap

(***************************************************************************)
(* AspirationSearcher: the windows of the attempts.                        *)
(***************************************************************************)
\* C30: the window of every attempt that AspirationSearcher starts, the
\* first one and every one issued again, whatever entry the transposition
\* table holds for the root, lies within the bounds of the caller:
\* lower_bound <= alpha < beta <= upper_bound.  The caller is the caller of
\* the model, or MultipvSearcher with its AspirationSearcher in lmr mode.
C30_WindowWithinBounds ==
    /\ mode = "asp" /\ ex.nstarts >= 1 =>
           /\ asp.params.lower_bound <= ex.p.lower_bound
           /\ ex.p.lower_bound < ex.p.upper_bound
           /\ ex.p.upper_bound <= asp.params.upper_bound
           /\ ex.p.lower_bound = asp.alpha
           /\ ex.p.upper_bound = asp.beta
    /\ mode = "mpv" /\ ex.nstarts >= 1 =>
           /\ ms.searcher.params.lower_bound <= ex.p.lower_bound
           /\ ex.p.lower_bound < ex.p.upper_bound
           /\ ex.p.upper_bound <= ms.searcher.params.upper_bound
           /\ ex.p.lower_bound = ms.searcher.alpha
           /\ ex.p.upper_bound = ms.searcher.beta

\* an attempt issued again with a window narrower than the bounds of the
\* caller, which are narrower than all values
C30_NarrowWindowAgain ==
    /\ mode = "asp"
    /\ ex.nstarts >= 2
    /\ ex.busy
    /\ VALUE_MIN < asp.params.lower_bound
    /\ asp.params.lower_bound < ex.p.lower_bound
    /\ ex.p.upper_bound = asp.params.upper_bound


(***************************************************************************)
(* C31.  AspirationSearcher, not in lmr mode: when an attempt fails, only  *)
(* the failing side of the window moves, and strictly outwards.  On a fail *)
(* low alpha becomes max(v - delta, lower_bound) and beta stays, on a fail *)
(* high beta becomes min(v + delta, upper_bound) and alpha stays; delta    *)
(* then becomes delta + 3 * delta / 8, and 1000000 once that is above      *)
(* 1500.                                                                   *)
(***************************************************************************)
Widened31 == asp'.last.n = asp.last.n + 1 /\ asp'.last.again

WidenedBy(a, b, v) ==
    /\ b.delta = (IF a.delta + (3 * a.delta) \div 8 > 1500
                  THEN 1000000
                  ELSE a.delta + (3 * a.delta) \div 8)
    /\ \/ /\ v <= a.alpha
          /\ b.alpha = Max(v - a.delta, a.params.lower_bound)
          /\ b.alpha < a.alpha
          /\ b.beta = a.beta
       \/ /\ v >= a.beta
          /\ b.beta = Min(v + a.delta, a.params.upper_bound)
          /\ b.beta > a.beta
          /\ b.alpha = a.alpha

\* C31: every widening of the aspiration window moves the failing side
\* only, strictly outwards, by delta, and then increases delta.
C31_WidenFailingSide ==
    [][(mode = "asp" /\ ~asp.lmr_mode /\ Widened31)
          => WidenedBy(asp, asp', asp'.last.v)]_vars

\* A fail low has been answered with the widest step: delta has passed 1500.
C31_DeltaCapped ==
    /\ mode = "asp"
    /\ ~asp.lmr_mode
    /\ asp.last.again
    /\ asp.last.v <= asp.last.alpha
    /\ asp.alpha < asp.last.alpha
    /\ asp.delta = 1000000


(***************************************************************************)
(* C32.  MultipvSearcher hands each root move to its inner searcher with   *)
(* depth = depth - 1 and the window (-upper_bound, -max(values[k - 1],     *)
(* lower_bound)), k = min(variation_count, number of searchmoves); the     *)
(* lower bound of that window is strictly below its upper bound; once      *)
(* values[k - 1] >= upper_bound no further root move is searched.          *)
(***************************************************************************)
\* A root move has been played and its search is with the inner searcher.
Searching32 ==
    /\ mode = "mpv"
    /\ env.req.searchmoves # <<>>
    /\ ms.params.position # <<>>

\* values[k - 1] of the code (the sequences of the model count from 1)
Alpha32 ==
    ms.values[Min(ms.params.variation_count, Len(ms.params.searchmoves))]

\* C32: the parameters of the search of each root move, and no search once
\* the k-th best value has reached upper_bound.
C32_RootMoveWindow ==
    /\ Searching32 =>
         /\ ms.current_move_index < Len(ms.params.searchmoves)
         /\ ms.params.position =
                <<ms.params.searchmoves[ms.current_move_index + 1]>>
         /\ ms.searcher.params.position = ms.params.position
         /\ ms.searcher.params.depth = env.req.depth - 1
         /\ ms.searcher.params.lower_bound = -env.req.upper_bound
         /\ ms.searcher.params.upper_bound = -Max(Alpha32, env.req.lower_bound)
         /\ ms.searcher.params.lower_bound < ms.searcher.params.upper_bound
    /\ (/\ mode = "mpv"
        /\ env.req.searchmoves # <<>>
        /\ Alpha32 >= ms.params.upper_bound)
          => /\ ms.params.position = <<>>
             /\ ~ex.busy

\* The second of two principal variations is searched with a window that
\* the value of the first move does not narrow.
C32_SecondOfTwoSearched ==
    /\ Searching32
    /\ ms.params.variation_count = 2
    /\ ms.current_move_index = 1
    /\ ms.values[1] > ms.params.lower_bound
    /\ ms.searcher.params.upper_bound = -ms.params.lower_bound

\* The search has ended before the last root move: the k-th best value has
\* reached upper_bound.
C32_StoppedAtUpperBound ==
    /\ MpvFinal
    /\ env.req.searchmoves # <<>>
    /\ ms.current_move_index < Len(ms.params.searchmoves)
    /\ Alpha32 >= ms.params.upper_bound


(***************************************************************************)
(* C33.  During a MultipvSearcher search with non-empty searchmoves the    *)
(* values of the root moves already searched (indices below                *)
(* current_move_index) are in non-increasing order, values[i] is the value *)
(* found for searchmoves[i], and searchmoves is a permutation of the list  *)
(* given to start_search; the sorted_moves of the final report hold every  *)
(* given move exactly once.                                                *)
(***************************************************************************)
Occurrences(list, x) == Cardinality({i \in 1..Len(list) : list[i] = x})

PermutationOf(list, given) ==
    /\ Len(list) = Len(given)
    /\ \A i \in 1..Len(given) : Occurrences(list, given[i]) = 1

\* C33: values and searchmoves stay aligned, the searched prefix sorted.
C33_ValuesSortedAndAligned ==
    (mode = "mpv" /\ env.req.searchmoves # <<>>) =>
        /\ PermutationOf(ms.params.searchmoves, env.req.searchmoves)
        /\ Len(ms.values) = Len(ms.params.searchmoves)
        /\ ms.current_move_index <= Len(ms.values)
        /\ Len(ms.found) = ms.current_move_index
        /\ \A i \in 1..(ms.current_move_index - 1) :
              ms.values[i] >= ms.values[i + 1]
        /\ \A i \in 1..ms.current_move_index :
              \E j \in 1..Len(ms.found) :
                 /\ ms.found[j].move = ms.params.searchmoves[i]
                 /\ ms.found[j].value = ms.values[i]
        /\ MpvFinal => PermutationOf(out.moves, env.req.searchmoves)

\* The move searched last was found better than the one searched before it
\* and has taken its place.
C33_LaterMoveSortedFirst ==
    /\ mode = "mpv"
    /\ Len(ms.found) >= 2
    /\ ms.found[Len(ms.found)].value > ms.found[Len(ms.found) - 1].value
    /\ ms.params.searchmoves # env.req.searchmoves
    /\ ms.params.searchmoves[1] = ms.found[Len(ms.found)].move


(***************************************************************************)
(* C34.  Whenever Search::run(alpha, beta, depth, ...) returns Ok(v),      *)
(* alpha <= v <= beta for the alpha and beta of the call, at every node:   *)
(* transposition-table cutoff, quiescence leaf, null-move cutoff, move     *)
(* loop, final position.                                                   *)
(***************************************************************************)
\* The calls of run in the history of a run: the index of the call in the
\* log, the index of its return (0 when it returned Err) and the call of
\* the node above (0 for the root).
RECURSIVE FramesFrom(_, _, _, _)
FramesFrom(log, i, open, acc) ==
    IF i > Len(log)
    THEN acc \cup {[call |-> open[k], ret |-> 0,
                    parent |-> IF k = 1 THEN 0 ELSE open[k - 1]] :
                      k \in 1..Len(open)}
    ELSE IF log[i][1] = "call"
    THEN FramesFrom(log, i + 1, Append(open, i), acc)
    ELSE IF log[i][1] = "ret"
    THEN FramesFrom(log, i + 1, SubSeq(open, 1, Len(open) - 1),
                    acc \cup {[call |-> open[Len(open)], ret |-> i,
                               parent |-> IF Len(open) = 1 THEN 0
                                          ELSE open[Len(open) - 1]]})
    ELSE FramesFrom(log, i + 1, open, acc)

RunFrames(log) == FramesFrom(log, 1, <<>>, {})

\* The frame f returned a value between its alpha and its beta.
Bounded(log, f) ==
    /\ log[f.call][2] <= log[f.ret][2]
    /\ log[f.ret][2] <= log[f.call][3]

\* C34: every call of run that returns Ok(v) has alpha <= v <= beta.
C34_ValueWithinWindow ==
    (mode = "run" /\ se.op = "run") =>
        \A f \in RunFrames(se.s.log) : f.ret # 0 => Bounded(se.s.log, f)

\* run(-2, -1, 1, true) on a stalemate position has returned Ok(0).
C34_FinalValueAboveBeta ==
    /\ mode = "run"
    /\ se.op = "run"
    /\ se.ok
    /\ se.s.game.legal = {}
    /\ ~se.s.game.check
    /\ se.s.log[1] = <<"call", -2, -1, 1, TRUE, ply(StartStack), 0, 0>>
    /\ se.ret = <<se.s.game.final>>
    /\ se.s.game.final > -1

\* What holds: a value outside the window is the value of a final position
\* above beta, returned by a node without legal moves.
BoundedUnlessFinal ==
    (mode = "run" /\ se.op = "run") =>
        \A f \in RunFrames(se.s.log) :
            f.ret # 0 =>
               \/ Bounded(se.s.log, f)
               \/ /\ se.s.game.legal = {}
                  /\ se.s.log[f.ret][2] = se.s.game.final
                  /\ se.s.game.final > se.s.log[f.call][3]
                  /\ se.s.log[f.call][4] > 0


(***************************************************************************)
(* C35.  A null move is tried at a node only if null moves are allowed     *)
(* there and the static evaluation is >= beta; the search after it has the *)
(* window (-beta, -alpha) and null moves disallowed, so that no line of    *)
(* play has two null moves in a row; if its value is >= beta the node      *)
(* stores a lower-bound entry with its own depth and returns beta.  The    *)
(* depth of the search after the null move is depth - R - 1, not below 0   *)
(* (as stated: depth - R, not below 0).                                    *)
(***************************************************************************)
\* The null moves played in the run: their places in the log
NullMoves(log) ==
    {i \in 1..Len(log) : log[i][1] = "move" /\ log[i][2] = NullMoveBits}

\* The call of run that was open when log[i] was written
Enclosing(log, i) ==
    CHOOSE f \in RunFrames(log) :
        /\ f.call < i
        /\ f.ret = 0 \/ f.ret > i
        /\ \A g \in RunFrames(log) :
              (g.call < i /\ (g.ret = 0 \/ g.ret > i)) => g.call <= f.call

\* The call of run that log[i] enters
FrameOf(log, i) == CHOOSE f \in RunFrames(log) : f.call = i

\* The null move at log[i], played at the node with the call log[c]: the
\* search after it runs at the depth `reduced`
NullMoveSearched(log, eval, i, c, reduced) ==
    /\ log[c][5]
    /\ eval >= log[c][3]
    /\ c = 1 \/ log[c - 1][1] # "move" \/ log[c - 1][2] # NullMoveBits
    /\ i < Len(log)
    /\ log[i + 1][1] = "call"
    /\ log[i + 1][2] = -log[c][3]
    /\ log[i + 1][3] = -log[c][2]
    /\ log[i + 1][4] = reduced
    /\ log[i + 1][5] = FALSE
    /\ (/\ FrameOf(log, i + 1).ret # 0
        /\ -log[FrameOf(log, i + 1).ret][2] >= log[c][3])
          => /\ Len(log) >= FrameOf(log, i + 1).ret + 2
             /\ log[FrameOf(log, i + 1).ret + 1] =
                    <<"store", log[c][8], log[c][3], BOUND_LOWER, log[c][4]>>
             /\ log[FrameOf(log, i + 1).ret + 2][1] = "ret"
             /\ log[FrameOf(log, i + 1).ret + 2][2] = log[c][3]
             /\ Enclosing(log, i).ret = FrameOf(log, i + 1).ret + 2

\* C35 as amended: the search after the null move runs at depth - R - 1.
C35_NullMoveSearch ==
    (mode = "run" /\ se.op = "run") =>
        \A i \in NullMoves(se.s.log) :
            NullMoveSearched(se.s.log, se.s.game.eval, i,
                             Enclosing(se.s.log, i).call,
                             Max(0, se.s.log[Enclosing(se.s.log, i).call][4] - R - 1))

\* C35 as stated: the search after the null move runs at depth - R.
C35_NullMoveSearchAtDepthLessR ==
    (mode = "run" /\ se.op = "run") =>
        \A i \in NullMoves(se.s.log) :
            NullMoveSearched(se.s.log, se.s.game.eval, i,
                             Enclosing(se.s.log, i).call,
                             Max(0, se.s.log[Enclosing(se.s.log, i).call][4] - R))

\* A null move at depth 3 has cut the node off: the search after it, at
\* depth 0, gave a value that is >= beta for the node.
C35_NullMoveCutoffAtDepth3 ==
    /\ mode = "run"
    /\ se.op = "run"
    /\ se.ok
    /\ Len(se.s.log) >= 5
    /\ se.s.log[1][1] = "call"
    /\ se.s.log[1][4] = 3
    /\ se.s.log[2] = <<"move", NullMoveBits>>
    /\ se.s.log[3][1] = "call"
    /\ se.s.log[3][4] = 0
    /\ se.s.log[Len(se.s.log) - 1][1] = "store"
    /\ se.s.log[Len(se.s.log) - 1][4] = BOUND_LOWER
    /\ se.s.log[Len(se.s.log)][1] = "ret"
    /\ se.ret = <<se.s.log[1][3]>>


(***************************************************************************)
(* C36.  When Search::run returns Ok, the ply of the move stack (the       *)
(* number of saved move lists) and the length of the stack of node states  *)
(* are what they were at entry: a node that saved the move list restores   *)
(* it once in node_end, a node that returned before saving (table cutoff   *)
(* or depth 0) restores nothing.                                           *)
(***************************************************************************)
\* The frame f left both stacks as high as it found them.
Balanced(log, f) ==
    /\ log[f.ret][3] = log[f.call][6]
    /\ log[f.ret][4] = log[f.call][7]

\* C36: every call of run that returns Ok leaves the ply of the move stack
\* and the length of the stack of node states as they were at its entry.
C36_StacksBalanced ==
    (mode = "run" /\ se.op = "run") =>
        /\ \A f \in RunFrames(se.s.log) : f.ret # 0 => Balanced(se.s.log, f)
        /\ se.ok => /\ ply(se.s.moves) = se.s.moves_starting_ply
                    /\ se.s.state_stack = <<>>

\* A run of depth 2 has returned Ok: nodes that saved the move list and
\* played moves, and leaves that returned before saving.
C36_SavedAndPristineNodes ==
    /\ mode = "run"
    /\ se.op = "run"
    /\ se.ok
    /\ se.s.log[1][4] = 2
    /\ \E f \in RunFrames(se.s.log) : se.s.log[f.call][4] = 0 /\ f.ret # 0
    /\ \E f \in RunFrames(se.s.log) :
          /\ se.s.log[f.call][4] = 1
          /\ f.ret # 0
          /\ \E i \in (f.call + 1)..(f.ret - 1) : se.s.log[i][1] = "move"
    /\ ply(se.s.moves) = ply(StartStack)


(***************************************************************************)
(* C37.  new_search() terminates.  It advances the generation by one step  *)
(* of 4 modulo 256 (the two lowest bits stay zero) when fewer than 128     *)
(* non-empty records of the first min(128, cluster_count) clusters carry   *)
(* the new generation, so that 64 calls on a table without records bring   *)
(* the generation back to where it started; otherwise it goes on           *)
(* advancing, by at most 5 steps in all, and on return fewer than 128 of   *)
(* the sampled records carry the current generation.                       *)
(***************************************************************************)
\* The records with a key word among the first 128 clusters that carry the
\* generation g
Carrying(t, g) ==
    Cardinality({<<c, i>> \in (1..Min(128, Len(t.table))) \X (1..4) :
                    /\ t.table[c][i].key # Zero64
                    /\ (t.table[c][i].data.gen_bound \div 4) * 4 = g})

NoRecords(t) ==
    \A c \in 1..Len(t.table), i \in 1..4 : t.table[c][i] = DefaultRecord

\* The steps of 4 from the generation g to the generation h, 1..64
StepsBetween(g, h) == (((h - g + 256 - 4) % 256) \div 4) + 1

AdvancedBy(t, u, steps) ==
    /\ u.table = t.table
    /\ u.generation % 4 = 0
    /\ u.generation \in 0..255
    /\ steps <= 5
    /\ (steps = 1) <=> (Carrying(t, (t.generation + 4) % 256) < 128)
    /\ \A j \in 1..(steps - 1) : Carrying(t, (t.generation + 4 * j) % 256) >= 128
    /\ Carrying(u, u.generation) < 128

\* C37: each call of new_search advances the generation as described.
C37_NewSearchAdvances ==
    [][mode = "gen" =>
         /\ AdvancedBy(tt, tt', StepsBetween(tt.generation, tt'.generation))
         /\ (NoRecords(tt) /\ th'.calls = 64) => tt'.generation = th.start]_vars

\* One call has advanced the generation by 5 steps: 128 records of the
\* sample carry each of the 4 generations in between.
C37_AdvancedFiveSteps ==
    /\ mode = "gen"
    /\ th.calls = 1
    /\ tt.generation = (th.start + 20) % 256
    /\ \A j \in 1..4 : Carrying(tt, (th.start + 4 * j) % 256) = 128

\* 64 calls on a table without records: the generation is back.
C37_SixtyFourCalls ==
    /\ mode = "gen"
    /\ NoRecords(tt)
    /\ th.calls = 64
    /\ tt.generation = th.start


(***************************************************************************)
(* C38.  When store(k, e) finds in the cluster neither an empty slot nor a *)
(* record for k, it overwrites the record with the lowest replacement      *)
(* score, the first of them on ties, and leaves the other three as they    *)
(* are; a record of the current generation is scored higher than any       *)
(* record of an older generation, whatever their depths and bounds, and so *)
(* is not the one replaced while the cluster holds a record of an older    *)
(* generation.                                                             *)
(***************************************************************************)
\* The step is a store that found no empty slot and no record for its key.
Replacing38 == mode = "tt" /\ th'.last.op = "store" /\ ~th'.stored.found

Changed(old, new) == {i \in 1..4 : new[i] # old[i]}

\* A record of depth d and bound b in the generation g
Scored(g, d, b) ==
    [key |-> Key64(1), data |-> [EntryA EXCEPT !.depth = d, !.gen_bound = g + b]]

\* Records of the current generation against records of older ones, at the
\* ends of the range of depths and for every bound
CurrentScoredHigher(t) ==
    \A g \in {(t.generation + 4) % 256, (t.generation + 252) % 256},
       d1, d2 \in {0, 1, DEPTH_MAX - 1, DEPTH_MAX}, b1, b2 \in 0..3 :
          calc_score(t, Scored(t.generation, d1, b1)) > calc_score(t, Scored(g, d2, b2))

ReplacedLowest(t, old, new, w) ==
    /\ Changed(old, new) = {w}
    /\ \A i \in 1..4 : calc_score(t, old[w]) <= calc_score(t, old[i])
    /\ \A i \in 1..(w - 1) : calc_score(t, old[w]) < calc_score(t, old[i])
    /\ \A i \in 1..4 :
          generation(old[i]) # t.generation => generation(old[w]) # t.generation

\* C38: a store that has to replace a record replaces the first record of
\* the lowest score, never one of the current generation while an older one
\* is in the cluster.
C38_ReplacesLowestScore ==
    [][Replacing38 =>
         /\ \A c \in 1..Len(tt.table) :
               c # cluster_mut(Key64(th'.stored.k)) => tt'.table[c] = tt.table[c]
         /\ \E w \in 1..4 :
               ReplacedLowest(tt, tt.table[cluster_mut(Key64(th'.stored.k))],
                              tt'.table[cluster_mut(Key64(th'.stored.k))], w)
         /\ CurrentScoredHigher(tt)]_vars

\* A record was replaced in a cluster of two generations: a record of the
\* older generation is still there, next to a record of the current
\* generation that is less deep than it.
C38_ReplacedAmongTwoGenerations ==
    /\ mode = "tt"
    /\ th.last.op = "store"
    /\ ~th.stored.found
    /\ \E i, j \in 1..4 :
          /\ generation(tt.table[1][i]) # tt.generation
          /\ generation(tt.table[1][j]) = tt.generation
          /\ tt.table[1][j].data.depth < tt.table[1][i].data.depth
          /\ Xor64(tt.table[1][j].key, as_u64(tt.table[1][j].data))
                # Key64(th.stored.k)


(***************************************************************************)
(* C39.  After any sequence of store, probe, new_search and clear, in      *)
(* every cluster the empty slots (key word 0 and payload 0) form a suffix  *)
(* of the four slots and no two non-empty records match the same key;      *)
(* each store changes one record, in the cluster selected by the low bits  *)
(* of its key.                                                             *)
(***************************************************************************)
EmptySlot(record) == record.key = Zero64 /\ as_u64(record.data) = Zero64

\* The key a record answers to
KeyOf(record) == Xor64(record.key, as_u64(record.data))

EmptySuffix(cluster) ==
    \A i \in 1..3 : EmptySlot(cluster[i]) => EmptySlot(cluster[i + 1])

OneRecordPerKey(cluster) ==
    \A i, j \in 1..4 :
        (i < j /\ ~EmptySlot(cluster[i]) /\ ~EmptySlot(cluster[j]))
            => KeyOf(cluster[i]) # KeyOf(cluster[j])

WellFormed(t) ==
    \A c \in 1..Len(t.table) :
        EmptySuffix(t.table[c]) /\ OneRecordPerKey(t.table[c])

\* store wrote its record into one slot of the cluster of its key and left
\* every other record of the table as it was
StoredOneRecord(t, u, k, data) ==
    \E w \in 1..4 :
        /\ u.table[cluster_mut(Key64(k))][w].data = data
        /\ KeyOf(u.table[cluster_mut(Key64(k))][w]) = Key64(k)
        /\ \A c \in 1..Len(t.table), i \in 1..4 :
              (c # cluster_mut(Key64(k)) \/ i # w) => u.table[c][i] = t.table[c][i]

\* C39: the clusters stay well formed (empty slots last, one record per
\* key), and a store writes one record, in the cluster of its key.
C39_ClustersWellFormed ==
    [][(mode = "tt" \/ mode = "zero") =>
         (WellFormed(tt') /\ (th'.last.op = "store" =>
              StoredOneRecord(tt, tt', th'.stored.k, th'.stored.data)))]_vars

\* Two records of one cluster, neither of them an empty slot, answer to the
\* key of the last store
C39_TwoRecordsOfOneKey ==
    /\ mode = "zero"
    /\ th.last.op = "store"
    /\ ~OneRecordPerKey(tt.table[cluster_mut(Key64(th.stored.k))])
    /\ EmptySuffix(tt.table[cluster_mut(Key64(th.stored.k))])

\* Where no stored key word is zero but that of an empty slot, the clusters
\* are well formed.
WellFormedWithKeyWords ==
    (mode = "tt" /\ \A c \in 1..Len(tt.table), i \in 1..4 :
                       tt.table[c][i].key = Zero64 => EmptySlot(tt.table[c][i]))
        => WellFormed(tt)


(***************************************************************************)
(* C40.  The early exit of calc_see (the loop stops as soon as             *)
(* max(-gain[d], gain[d+1]) < 0) does not influence the outcome: for every *)
(* exchange calc_see returns what the negamax of the same swap list gives  *)
(* when the loop runs to the last attacker.                                *)
(***************************************************************************)
\* The loop of Board::calc_see without its `break`
RECURSIVE SeeLoopToEnd(_, _, _, _, _, _, _, _)
SeeNextToEnd(b, to_square, attacking_color, occupied, attackers_and_defenders, gain) ==
    SeeLoopToEnd(b, to_square, attacking_color,
                 get_least_valuable_piece_in_a_set(b.piece_type,
                     attackers_and_defenders \cap b.color[attacking_color])[1],
                 get_least_valuable_piece_in_a_set(b.piece_type,
                     attackers_and_defenders \cap b.color[attacking_color])[2],
                 occupied, attackers_and_defenders, gain)

SeeLoopToEnd(b, to_square, attacking_color, attacking_piece, from_square_bb, occupied, attackers_and_defenders, gain) ==
    IF from_square_bb = EMPTY_SET
    THEN gain
    ELSE SeeNextToEnd(b, to_square, 1 - attacking_color,
             Xor(occupied, from_square_bb),
             IF from_square_bb \cap
                    (b.piece_type[PAWN] \cup b.piece_type[BISHOP]
                     \cup b.piece_type[ROOK] \cup b.piece_type[QUEEN]) # {}
             THEN Xor(attackers_and_defenders, from_square_bb)
                  \cup consider_xrays(b.piece_type,
                           Xor(occupied, from_square_bb), to_square,
                           bitscan_1bit(from_square_bb))
             ELSE Xor(attackers_and_defenders, from_square_bb),
             Append(gain, VALUE[attacking_piece + 1] - gain[Len(gain)]))

\* Board::calc_see without the early exit
SeeToEnd(b, attacking_color, from_square, attacking_piece, to_square, target_piece) ==
    LET gain == SeeLoopToEnd(b, to_square, attacking_color, attacking_piece,
                    {from_square}, b.occupied,
                    attacks_to(b.piece_type, b.color, b.occupied, to_square, WHITE)
                        \cup attacks_to(b.piece_type, b.color, b.occupied,
                                        to_square, BLACK),
                    <<VALUE[target_piece + 1]>>)
    IN  Negamaxed(SubSeq(gain, 1, Len(gain) - 1))

\* The loop of MoveGenerator::calc_see without its first `break`
RECURSIVE ExchangeToEnd(_, _, _, _, _, _, _)
ExchangeNextToEnd(b, dest_square, us, attackers_and_defenders, gain, speculative) ==
    IF get_least_valuable_piece_in_a_set(b.piece_type,
           attackers_and_defenders \cap b.color[us])[2] # {}
    THEN ExchangeToEnd(b, dest_square, us,
             get_least_valuable_piece_in_a_set(b.piece_type,
                 attackers_and_defenders \cap b.color[us])[1],
             get_least_valuable_piece_in_a_set(b.piece_type,
                 attackers_and_defenders \cap b.color[us])[2],
             attackers_and_defenders, Append(gain, speculative))
    ELSE gain

ExchangeToEnd(b, dest_square, us, piece, orig_square_bb, attackers_and_defenders, gain) ==
    ExchangeNextToEnd(b, dest_square, 1 - us,
        IF orig_square_bb \cap
               (b.piece_type[PAWN] \cup b.piece_type[BISHOP]
                \cup b.piece_type[ROOK] \cup b.piece_type[QUEEN]) # {}
        THEN (attackers_and_defenders \ orig_square_bb)
             \cup XrayAttackers(b, dest_square, orig_square_bb)
        ELSE attackers_and_defenders \ orig_square_bb,
        gain, PIECE_VALUES[piece + 1] - gain[Len(gain)])

\* MoveGenerator::calc_see without the early exit
MoveSeeToEnd(b, to_move, m) ==
    Negamaxed(ExchangeToEnd(b, m.dest_square, to_move, m.piece, {m.orig_square},
                  attacks_to(b.piece_type, b.color, b.occupied, m.dest_square, WHITE)
                      \cup attacks_to(b.piece_type, b.color, b.occupied,
                                      m.dest_square, BLACK),
                  <<IF m.move_type = MOVE_PROMOTION
                    THEN PIECE_VALUES[m.captured_piece + 1] + 1
                    ELSE PIECE_VALUES[m.captured_piece + 1]>>))

BoardSeeToEnd ==
    SeeToEnd(bd.p.b, bd.p.us, bd.m.orig_square, bd.m.piece, bd.m.dest_square,
             bd.m.captured_piece)

\* the loop of Board::calc_see ended at its `break`
ExitedEarly ==
    Len(Swapped(bd.p.b, bd.p.us, bd.m.orig_square, bd.m.piece,
                bd.m.dest_square, bd.m.captured_piece).gain)
        < Len(SeeLoopToEnd(bd.p.b, bd.m.dest_square, bd.p.us, bd.m.piece,
                  {bd.m.orig_square}, bd.p.b.occupied,
                  attacks_to(bd.p.b.piece_type, bd.p.b.color, bd.p.b.occupied,
                             bd.m.dest_square, WHITE)
                      \cup attacks_to(bd.p.b.piece_type, bd.p.b.color,
                                      bd.p.b.occupied, bd.m.dest_square, BLACK),
                  <<VALUE[bd.m.captured_piece + 1]>>))

\* C40 as stated: calc_see returns the value of the negamax of the swap list
\* without the early exit.
C40_SameValueWithoutEarlyExit ==
    (mode = "board" /\ bd.op = "calc_see") =>
        /\ bd.see.value = BoardSeeToEnd
        /\ bd.see.of_move = MoveSeeToEnd(bd.p.b, bd.p.us, bd.m)

\* C40, amended: the early exit does not influence the sign of the outcome:
\* calc_see returns a value of the sign of the negamax of the swap list
\* without the early exit, and that value itself when the loop does not
\* exit early.
C40_SameSignWithoutEarlyExit ==
    (mode = "board" /\ bd.op = "calc_see") =>
        /\ Sgn(bd.see.value) = Sgn(BoardSeeToEnd)
        /\ Sgn(bd.see.of_move) = Sgn(MoveSeeToEnd(bd.p.b, bd.p.us, bd.m))
        /\ ~ExitedEarly =>
              /\ bd.see.value = BoardSeeToEnd
              /\ bd.see.of_move = MoveSeeToEnd(bd.p.b, bd.p.us, bd.m)

\* The loop ended at its `break` and the value returned is not the value of
\* the exchange carried to its end
C40_EarlyExitChangedValue ==
    /\ mode = "board" /\ bd.op = "calc_see"
    /\ ExitedEarly
    /\ bd.see.value # BoardSeeToEnd
    /\ bd.see.of_move = bd.see.value

====
